---- MODULE Spec2Model ----
(***************************************************************************)
(* A model of the key-notation tokenizer (nv/vi/keys.py) and of the two    *)
(* notation handlers (nv/process_notation.py) of NeoVintageous.            *)
(*                                                                         *)
(* A Python string is a sequence of one-character strings; a key token is  *)
(* such a sequence too.                                                    *)
(***************************************************************************)
EXTENDS Integers, Sequences, FiniteSets, TLC

\* the tokenizer run on its own: the key string, the tokens, the tokens of
\* their concatenation
VARIABLES source, toks, retoks, tphase

\* the value bound to <leader> (nv/variables.py)
VARIABLES mapleader

\* per view: the pending command state (nv/settings.py, nv/state.py), the
\* handler created for the view, and what the handler did to the editor
VARIABLES st, h, log

\* to_bare_command_name run on source, on the command cmdseq it was built
\* from, and on its own result
VARIABLES cmdseq, bare, bare0, bare2

\* RangeNode (nv/ex/nodes.py) resolved on a view: the buffer text, the
\* selections, the address token or tokens, the current line, the result
VARIABLES buf, sel, rtok, rend, rsep, cur, rres, rphase

\* _collect_input run on a view: the pending motion and action, the command
\* it picked, how it ended, the interactive flag of the view
VARIABLES cmotion, caction, ccommand, coutcome, cinteractive, cphase

\* the generator tokenize_keys(gsource) drawn from one token at a time: the
\* position of the next character, the tokens yielded so far
VARIABLES gsource, gpos, gtokens, gphase

\* on_query_context called on a view: the settings and options of the view,
\* the arguments, the value returned
VARIABLES qview, qcall, qret, qphase

tokvars == <<source, toks, retoks, tphase>>

barevars == <<cmdseq, bare, bare0, bare2>>

rangevars == <<buf, sel, rtok, rend, rsep, cur, rres, rphase>>

hvars == <<st, h, log>>

collectvars == <<cmotion, caction, ccommand, coutcome, cinteractive, cphase>>

genvars == <<gsource, gpos, gtokens, gphase>>

queryvars == <<qview, qcall, qret, qphase>>

vars == <<source, toks, retoks, tphase, mapleader, st, h, log, cmdseq, bare, bare0,
          bare2, buf, sel, rtok, rend, rsep, cur, rres, rphase,
          cmotion, caction, ccommand, coutcome, cinteractive, cphase,
          gsource, gpos, gtokens, gphase, qview, qcall, qret, qphase>>

(***************************************************************************)
(* Bounds of the model.                                                    *)
(***************************************************************************)
\* modifier prefixes written in one generated <...> group
MaxMods == 4
\* input units (bare characters or <...> groups) of one generated key string
MaxUnits == 3
\* keys of the key string given to a notation handler
MaxKeys == 3
\* keys of each key string when two views run a handler side by side
MaxIsoKeys == 1
\* keys of the command given to to_bare_command_name
MaxCmd == 3
\* the longest generic buffer a range is resolved on
MaxBuf == 3
\* the largest current line handed to _resolve_line_number
MaxCur == 4
\* the most deltas in one TokenOffset
MaxDeltas == 2
\* input units of the key string a generator is drawn from token by token
MaxGenUnits == 3

(***************************************************************************)
(* Characters and str.lower() / str.upper().                               *)
(***************************************************************************)
LowerOf ==
    ("C" :> "c") @@ ("S" :> "s") @@ ("M" :> "m") @@ ("D" :> "d") @@ ("A" :> "a")
    @@ ("X" :> "x") @@ ("E" :> "e") @@ ("R" :> "r") @@ ("L" :> "l") @@ ("T" :> "t")

UpperOf ==
    ("c" :> "C") @@ ("s" :> "S") @@ ("m" :> "M") @@ ("d" :> "D") @@ ("a" :> "A")
    @@ ("x" :> "X") @@ ("e" :> "E") @@ ("r" :> "R") @@ ("l" :> "L") @@ ("t" :> "T")

lower(c) == IF c \in DOMAIN LowerOf THEN LowerOf[c] ELSE c

upper(c) == IF c \in DOMAIN UpperOf THEN UpperOf[c] ELSE c

str_lower(s) == [k \in 1..Len(s) |-> lower(s[k])]

str_upper(s) == [k \in 1..Len(s) |-> upper(s[k])]

startswith(s, p) == Len(s) >= Len(p) /\ SubSeq(s, 1, Len(p)) = p

endswith(s, p) == Len(s) >= Len(p) /\ SubSeq(s, Len(s) - Len(p) + 1, Len(s)) = p

RECURSIVE join(_)
\* ''.join(tokens)
join(ts) == IF ts = <<>> THEN <<>> ELSE Head(ts) \o join(Tail(ts))

(***************************************************************************)
(* Tables of nv/vi/seqs.py and nv/variables.py that keys.py reads.         *)
(***************************************************************************)
K_cr == <<"c", "r">>

K_esc == <<"e", "s", "c">>

K_lt == <<"l", "t">>

K_leader == <<"l", "e", "a", "d", "e", "r">>

bracket(name) == <<"<">> \o name \o <<">">>

\* seqs.NAMED_KEY_ALIASES: a line feed is the one-character alias of <cr>
NAMED_KEY_ALIASES ==
    (<<"\n">> :> K_cr) @@ (<<"e", "n", "t", "e", "r">> :> K_cr)

_NAMED_KEYS == {bracket(K_cr), bracket(K_esc), bracket(K_lt), bracket(K_leader)}

_resolve_named_key_alias(key) ==
    IF key \in DOMAIN NAMED_KEY_ALIASES THEN NAMED_KEY_ALIASES[key] ELSE key

\* variables.is_key_name
is_key_name(tok) == str_lower(tok) = bracket(K_leader)

\* variables.get: the value bound to the variable, a string
variables_get(tok, leader) == leader

(***************************************************************************)
(* KeySequenceTokenizer.  A position is the 1-based index of the next      *)
(* character _consume() returns (self.idx + 2).                            *)
(***************************************************************************)
_is_named_key(key) == str_lower(key) \in _NAMED_KEYS

\* _sort_modifiers without its last branch ('m-' ... 'c-')
_sort_modifiers_two_branches(modifiers) ==
    IF Len(modifiers) = 6 THEN <<"c", "-", "m", "-", "s", "-">>
    ELSE IF Len(modifiers) > 2 THEN
        IF startswith(modifiers, <<"s", "-">>) /\ endswith(modifiers, <<"c", "-">>)
            THEN <<"c", "-", "s", "-">>
        ELSE IF startswith(modifiers, <<"s", "-">>) /\ endswith(modifiers, <<"m", "-">>)
            THEN <<"m", "-", "s", "-">>
        ELSE modifiers
    ELSE modifiers

_sort_modifiers(modifiers) ==
    IF Len(modifiers) = 6 THEN <<"c", "-", "m", "-", "s", "-">>
    ELSE IF Len(modifiers) > 2 THEN
        IF startswith(modifiers, <<"s", "-">>) /\ endswith(modifiers, <<"c", "-">>)
            THEN <<"c", "-", "s", "-">>
        ELSE IF startswith(modifiers, <<"s", "-">>) /\ endswith(modifiers, <<"m", "-">>)
            THEN <<"m", "-", "s", "-">>
        ELSE IF startswith(modifiers, <<"m", "-">>) /\ endswith(modifiers, <<"c", "-">>)
            THEN <<"c", "-", "m", "-">>
        ELSE modifiers
    ELSE modifiers

ModifierLetters == {"c", "s", "m", "d", "a"}

\* the branch taken on '>', the key name lower-cased in every case
_long_key_name_close_lower(key_name, modifiers0, pos) ==
    LET modifiers == _sort_modifiers(str_lower(modifiers0))
        resolved == _resolve_named_key_alias(str_lower(key_name))
    IN  IF Len(key_name) = 1 /\ key_name \notin DOMAIN NAMED_KEY_ALIASES THEN
            IF modifiers = <<>> THEN [kind |-> "err", why |-> "wrong sequence"]
            ELSE [kind |-> "tok", pos |-> pos,
                  tok |-> <<"<">> \o str_upper(modifiers) \o str_lower(key_name) \o <<">">>]
        ELSE IF _is_named_key(bracket(resolved)) THEN
            [kind |-> "tok", pos |-> pos,
             tok |-> <<"<">> \o str_upper(modifiers) \o resolved \o <<">">>]
        ELSE [kind |-> "err", why |-> "not a known key"]

\* the branch of _long_key_name taken on '>'
_long_key_name_close(key_name, modifiers0, pos) ==
    LET modifiers == _sort_modifiers(str_lower(modifiers0))
        resolved == _resolve_named_key_alias(str_lower(key_name))
    IN  IF Len(key_name) = 1 /\ key_name \notin DOMAIN NAMED_KEY_ALIASES THEN
            IF modifiers = <<>> THEN [kind |-> "err", why |-> "wrong sequence"]
            ELSE [kind |-> "tok", pos |-> pos,
                  tok |-> <<"<">> \o str_upper(modifiers) \o key_name \o <<">">>]
        ELSE IF _is_named_key(bracket(resolved)) THEN
            [kind |-> "tok", pos |-> pos,
             tok |-> <<"<">> \o str_upper(modifiers) \o resolved \o <<">">>]
        ELSE [kind |-> "err", why |-> "not a known key"]

RECURSIVE _long_key_name_from_no_alias(_, _, _, _)
\* the loop of _long_key_name without the aliasing of a to m
_long_key_name_from_no_alias(src, pos, key_name, modifiers) ==
    IF pos > Len(src) THEN [kind |-> "err", why |-> "expected >"]
    ELSE LET c == src[pos] IN
        IF lower(c) \in ModifierLetters /\ pos + 1 <= Len(src) /\ src[pos + 1] = "-" THEN
            IF \E k \in 1..Len(modifiers) : lower(modifiers[k]) = lower(c)
                THEN [kind |-> "err", why |-> "invalid modifier sequence"]
            ELSE _long_key_name_from_no_alias(src, pos + 2, key_name, modifiers \o <<c, "-">>)
        ELSE IF c = ">" THEN _long_key_name_close(key_name, modifiers, pos + 1)
        ELSE _long_key_name_from_no_alias(src, pos + 1, key_name \o <<c>>, modifiers)

RECURSIVE _long_key_name_from(_, _, _, _)
\* the loop of _long_key_name, entered with the characters read so far
_long_key_name_from(src, pos, key_name, modifiers) ==
    IF pos > Len(src) THEN [kind |-> "err", why |-> "expected >"]
    ELSE LET c == src[pos] IN
        IF lower(c) \in ModifierLetters /\ pos + 1 <= Len(src) /\ src[pos + 1] = "-" THEN
            LET m == IF lower(c) = "a" THEN "m" ELSE c IN
            IF \E k \in 1..Len(modifiers) : lower(modifiers[k]) = lower(m)
                THEN [kind |-> "err", why |-> "invalid modifier sequence"]
            ELSE _long_key_name_from(src, pos + 2, key_name, modifiers \o <<m, "-">>)
        ELSE IF c = ">" THEN _long_key_name_close(key_name, modifiers, pos + 1)
        ELSE _long_key_name_from(src, pos + 1, key_name \o <<c>>, modifiers)

_long_key_name(src, pos) == _long_key_name_from(src, pos, <<>>, <<>>)

_expand_vars(tok, leader) == IF is_key_name(tok) THEN variables_get(tok, leader) ELSE tok

\* _tokenize_one giving the aliased name of a character without its brackets
_tokenize_one_bare_alias(src, pos, leader) ==
    IF pos > Len(src) THEN [kind |-> "eof"]
    ELSE LET c == src[pos] IN
        IF <<c>> \in DOMAIN NAMED_KEY_ALIASES
            THEN [kind |-> "tok", pos |-> pos + 1, tok |-> NAMED_KEY_ALIASES[<<c>>]]
        ELSE IF c = "<" THEN
            LET r == _long_key_name(src, pos + 1) IN
            IF r.kind = "tok"
                THEN [kind |-> "tok", pos |-> r.pos, tok |-> _expand_vars(r.tok, leader)]
            ELSE r
        ELSE [kind |-> "tok", pos |-> pos + 1, tok |-> <<c>>]

\* one token, the end of the input, or the ValueError raised
_tokenize_one(src, pos, leader) ==
    IF pos > Len(src) THEN [kind |-> "eof"]
    ELSE LET c == src[pos] IN
        IF <<c>> \in DOMAIN NAMED_KEY_ALIASES
            THEN [kind |-> "tok", pos |-> pos + 1, tok |-> bracket(NAMED_KEY_ALIASES[<<c>>])]
        ELSE IF c = "<" THEN
            LET r == _long_key_name(src, pos + 1) IN
            IF r.kind = "tok"
                THEN [kind |-> "tok", pos |-> r.pos, tok |-> _expand_vars(r.tok, leader)]
            ELSE r
        ELSE [kind |-> "tok", pos |-> pos + 1, tok |-> <<c>>]

RECURSIVE _iter_tokenize_from(_, _, _, _)
_iter_tokenize_from(src, pos, leader, acc) ==
    LET r == _tokenize_one(src, pos, leader) IN
    IF r.kind = "eof" THEN [ok |-> TRUE, toks |-> acc]
    ELSE IF r.kind = "err" THEN [ok |-> FALSE, toks |-> acc]
    ELSE _iter_tokenize_from(src, r.pos, leader, Append(acc, r.tok))

\* the generator run to its end: the tokens yielded, and whether it ended
\* without raising
_iter_tokenize(src, leader) == _iter_tokenize_from(src, 1, leader, <<>>)

\* list(tokenize_keys(keys))
tokenize_keys(keys, leader) == _iter_tokenize(keys, leader)

(***************************************************************************)
(* Key strings the tokenizer is run on.                                    *)
(***************************************************************************)
CasedModifierLetters == {"c", "C", "s", "S", "m", "M", "d", "D", "a", "A"}

RECURSIVE SeqsUpTo(_, _)
SeqsUpTo(S, n) ==
    IF n = 0 THEN {<<>>}
    ELSE LET shorter == SeqsUpTo(S, n - 1) IN
         shorter \cup {Append(q, x) : q \in {p \in shorter : Len(p) = n - 1}, x \in S}

RECURSIVE ModPrefix(_)
\* the text 'c-s-' of the modifier letters <<"c", "s">>
ModPrefix(ms) == IF ms = <<>> THEN <<>> ELSE <<Head(ms), "-">> \o ModPrefix(Tail(ms))

Group(ms, key) == <<"<">> \o ModPrefix(ms) \o key \o <<">">>

GroupKeys == {<<"x">>, <<"X">>, <<"s">>, K_esc, <<"E", "s", "c">>}

LeaderValues == {<<"\\">>, <<",", ",">>, bracket(K_cr)}

DefaultLeader == <<"\\">>

Units ==
    {<<"x">>, <<">">>, <<"-">>, <<"c">>, <<"\n">>,
     bracket(K_lt), bracket(<<"C", "R">>), bracket(<<"e", "n", "t", "e", "r">>),
     Group(<<"c">>, <<"x">>), Group(<<"S", "c">>, <<"x">>),
     Group(<<"d", "s", "c">>, K_esc), bracket(<<"L", "e", "a", "d", "e", "r">>),
     <<"<", "x", ">">>, <<"<">>}

TokIdle ==
    /\ source = <<>>
    /\ toks = [ok |-> FALSE, toks |-> <<>>]
    /\ retoks = [ok |-> FALSE, toks |-> <<>>]
    /\ tphase = "off"
    /\ mapleader = DefaultLeader

\* no to_bare_command_name run
BareIdle ==
    /\ cmdseq = <<>>
    /\ bare = [ok |-> FALSE, name |-> <<>>]
    /\ bare0 = [ok |-> FALSE, name |-> <<>>]
    /\ bare2 = [ok |-> FALSE, name |-> <<>>]

\* no range resolved
RangeIdle ==
    /\ buf = <<>> /\ sel = <<>>
    /\ rtok = <<>> /\ rend = <<>> /\ rsep = "" /\ cur = 0
    /\ rres = [kind |-> "none"]
    /\ rphase = "off"

\* no _collect_input run
CollectIdle ==
    /\ cmotion = "unused" /\ caction = "unused" /\ ccommand = "unused"
    /\ coutcome = "none" /\ cinteractive = FALSE /\ cphase = "off"

\* no generator drawn from
GenIdle == gsource = <<>> /\ gpos = 1 /\ gtokens = <<>> /\ gphase = "off"

\* no context queried
QueryIdle == qview = "unused" /\ qcall = "unused" /\ qret = "unused" /\ qphase = "off"

\* no handler created
HandlersIdle ==
    /\ st = [v \in {"A", "B"} |-> "unused"]
    /\ h = [v \in {"A", "B"} |-> "unused"]
    /\ log = [v \in {"A", "B"} |-> "unused"]

InitTok ==
    /\ \/ /\ \E ms \in SeqsUpTo(CasedModifierLetters, MaxMods), key \in GroupKeys :
                 source = Group(ms, key)
          /\ mapleader = DefaultLeader
       \/ /\ \E us \in SeqsUpTo(Units, MaxUnits) : source = join(us)
          /\ mapleader \in LeaderValues
    /\ toks = [ok |-> FALSE, toks |-> <<>>]
    /\ retoks = [ok |-> FALSE, toks |-> <<>>]
    /\ tphase = "new"
    /\ HandlersIdle /\ BareIdle /\ RangeIdle /\ CollectIdle
    /\ GenIdle /\ QueryIdle

\* tokens = list(tokenize_keys(source))
Tokenize ==
    /\ tphase = "new"
    /\ toks' = tokenize_keys(source, mapleader)
    /\ tphase' = "tokenized"
    /\ UNCHANGED <<source, mapleader, retoks, hvars, barevars, rangevars, collectvars, genvars, queryvars>>

\* list(tokenize_keys(''.join(tokens)))
Retokenize ==
    /\ tphase = "tokenized"
    /\ toks.ok
    /\ retoks' = tokenize_keys(join(toks.toks), mapleader)
    /\ tphase' = "retokenized"
    /\ UNCHANGED <<source, mapleader, toks, hvars, barevars, rangevars, collectvars, genvars, queryvars>>

NextTok == Tokenize \/ Retokenize

SpecTok == InitTok /\ [][NextTok]_vars

(***************************************************************************)
(* The generator of tokenize_keys drawn from token by token, as the loops  *)
(* of its callers do.                                                      *)
(***************************************************************************)
\* _tokenize_one yielding the rest of the input as a token where a group is
\* not closed
_tokenize_one_partial_group(src, pos, leader) ==
    LET r == _tokenize_one(src, pos, leader) IN
    IF r.kind = "err" /\ r.why = "expected >"
        THEN [kind |-> "tok", pos |-> Len(src) + 1, tok |-> SubSeq(src, pos, Len(src))]
    ELSE r

\* one pass of the loop of _iter_tokenize: token = self._tokenize_one()
next_token(src, pos, leader) == _tokenize_one(src, pos, leader)

\* the units of the key strings the generator is created on: characters, a
\* line feed, an opened group, closed groups and a group that is no key
GenUnits ==
    {<<"x">>, <<">">>, <<"\n">>, <<"<">>, Group(<<"c">>, <<"x">>), bracket(<<"C", "R">>),
     bracket(<<"L", "e", "a", "d", "e", "r">>), <<"<", "x", ">">>}

\* the key strings the generator is created on
GenSources == {join(us) : us \in SeqsUpTo(GenUnits, MaxGenUnits)}

InitGen ==
    /\ TokIdle /\ BareIdle /\ RangeIdle /\ HandlersIdle /\ CollectIdle /\ QueryIdle
    /\ gsource = <<>> /\ gpos = 1 /\ gtokens = <<>>
    /\ gphase = "new"

\* keys_iter = tokenize_keys(keys): the generator is created, nothing read
TokenizeKeys ==
    /\ gphase = "new"
    /\ gsource' \in GenSources
    /\ gpos' = 1 /\ gtokens' = <<>>
    /\ gphase' = "iter"
    /\ UNCHANGED <<tokvars, mapleader, hvars, barevars, rangevars, collectvars, queryvars>>

\* next(keys_iter): the generator yields a token, returns at the end of the
\* input, or raises ValueError
NextToken ==
    /\ gphase = "iter"
    /\ \E r \in {next_token(gsource, gpos, mapleader)} :
           IF r.kind = "tok" THEN
               /\ gtokens' = Append(gtokens, r.tok)
               /\ gpos' = r.pos
               /\ gphase' = "iter"
           ELSE
               /\ gphase' = IF r.kind = "eof" THEN "ended" ELSE "raised"
               /\ UNCHANGED <<gtokens, gpos>>
    /\ UNCHANGED <<gsource, tokvars, mapleader, hvars, barevars, rangevars, collectvars,
                   queryvars>>

NextGen == TokenizeKeys \/ NextToken

\* the caller draws from the generator until it is exhausted or raises
SpecGen == InitGen /\ [][NextGen]_vars /\ WF_vars(NextGen)

(***************************************************************************)
(* to_bare_command_name.                                                   *)
(***************************************************************************)
Digits == {"0", "1", "2", "3", "4", "5", "6", "7", "8", "9"}

\* str.isdigit
isdigit(k) == k # <<>> /\ \A j \in 1..Len(k) : k[j] \in Digits

RECURSIVE _count_end(_, _)
\* the position after the run [1-9]+ that starts at pos, or pos
_count_end(seq, pos) ==
    IF pos <= Len(seq) /\ seq[pos] \in Digits \ {"0"} THEN _count_end(seq, pos + 1) ELSE pos

\* _BARE_COMMAND_NAME_PATTERN.sub('', seq) without the register part
_BARE_COMMAND_NAME_PATTERN_sub_count_only(seq) ==
    SubSeq(seq, _count_end(seq, 1), Len(seq))

\* _BARE_COMMAND_NAME_PATTERN.sub('', seq): the pattern ^(?:".)?(?:[1-9]+)?
\* matches once, at the start; '.' matches no newline
_BARE_COMMAND_NAME_PATTERN_sub(seq) ==
    LET p == IF Len(seq) >= 2 /\ seq[1] = "\"" /\ seq[2] # "\n" THEN 3 ELSE 1
    IN  SubSeq(seq, _count_end(seq, p), Len(seq))

\* the bare name, or the ValueError of the tokenizer (ok FALSE)
to_bare_command_name(seq, leader) ==
    IF seq = <<"0">> THEN [ok |-> TRUE, name |-> seq]
    ELSE LET new_seq == tokenize_keys(_BARE_COMMAND_NAME_PATTERN_sub(seq), leader) IN
         IF ~new_seq.ok THEN [ok |-> FALSE, name |-> <<>>]
         ELSE [ok |-> TRUE,
               name |-> join(SelectSeq(new_seq.toks, LAMBDA k : ~isdigit(k)))]

\* the keys of a command, as the tokens the tokenizer yields
CmdUnits == {<<"d">>, <<"a">>, <<"w">>, <<"g">>, <<"<", "C", "-", "r", ">">>, bracket(K_cr)}

\* commands with a digit among their keys: the motion 0, the target of f
DigitKeyCmds == {<<"d", "0">>, <<"f", "1">>, <<"f", "2">>, <<"g", "0">>}

\* a register prefix, or none
RegisterPrefixes == {<<>>, <<"\"", "a">>, <<"\"", "1">>, <<"\"", "\"">>, <<"\"", "-">>}

\* a count, or none
Counts == {<<>>, <<"2">>, <<"1", "0">>, <<"1", "2">>}

\* the command us with the count n before its key number e + 1
WithCount(us, e, n) == join(SubSeq(us, 1, e)) \o n \o join(SubSeq(us, e + 1, Len(us)))

InitBare ==
    /\ \/ \E us \in SeqsUpTo(CmdUnits, MaxCmd) \ {<<>>} :
          \E r \in RegisterPrefixes, n \in Counts, m \in Counts, e \in 1..MaxCmd :
              /\ e < Len(us) \/ (e = 1 /\ m = <<>>)
              /\ cmdseq = join(us)
              /\ source = r \o n \o WithCount(us, e, m)
       \/ cmdseq = <<"0">> /\ source = <<"0">>
       \/ \* a command with a digit among its own keys
          \E r \in RegisterPrefixes, n \in Counts :
              /\ cmdseq \in DigitKeyCmds
              /\ source = r \o n \o cmdseq
       \/ \* the count before the register
          \E us \in SeqsUpTo(CmdUnits, MaxCmd - 1) \ {<<>>} :
          \E r \in RegisterPrefixes \ {<<>>}, n \in Counts \ {<<>>} :
              /\ cmdseq = join(us)
              /\ source = n \o r \o cmdseq
       \/ \* digits alone
          cmdseq = <<>> /\ source \in Counts \ {<<>>}
    /\ mapleader = DefaultLeader
    /\ toks = [ok |-> FALSE, toks |-> <<>>]
    /\ retoks = [ok |-> FALSE, toks |-> <<>>]
    /\ tphase = "bare"
    /\ bare = [ok |-> FALSE, name |-> <<>>]
    /\ bare0 = [ok |-> FALSE, name |-> <<>>]
    /\ bare2 = [ok |-> FALSE, name |-> <<>>]
    /\ HandlersIdle /\ RangeIdle /\ CollectIdle
    /\ GenIdle /\ QueryIdle

\* to_bare_command_name(source)
BareName ==
    /\ tphase = "bare"
    /\ bare' = to_bare_command_name(source, mapleader)
    /\ tphase' = "bared"
    /\ UNCHANGED <<source, toks, retoks, mapleader, hvars, cmdseq, bare0, bare2, rangevars, collectvars, genvars, queryvars>>

\* to_bare_command_name(cmdseq)
BareNameOfCmd ==
    /\ tphase = "bared"
    /\ bare0' = to_bare_command_name(cmdseq, mapleader)
    /\ tphase' = "both"
    /\ UNCHANGED <<source, toks, retoks, mapleader, hvars, cmdseq, bare, bare2, rangevars, collectvars, genvars, queryvars>>

\* to_bare_command_name(to_bare_command_name(source))
BareNameAgain ==
    /\ tphase = "both"
    /\ bare.ok
    /\ bare2' = to_bare_command_name(bare.name, mapleader)
    /\ tphase' = "again"
    /\ UNCHANGED <<source, toks, retoks, mapleader, hvars, cmdseq, bare, bare0, rangevars,
                   collectvars, genvars, queryvars>>

NextBare == BareName \/ BareNameOfCmd \/ BareNameAgain

SpecBare == InitBare /\ [][NextBare]_vars

(***************************************************************************)
(* RangeNode (nv/ex/nodes.py) and the view it is resolved on.  The module  *)
(* is not part of the sources at hand; the resolver is modelled from the   *)
(* specification and from the values tests/nv/ex/test_nodes.py asserts.    *)
(* A point is a 0-based offset into the buffer, a line a 0-based row, a    *)
(* region a record [a, b] of points.                                       *)
(***************************************************************************)
SetMin(S) == CHOOSE x \in S : \A y \in S : x <= y

SetMax(S) == CHOOSE x \in S : \A y \in S : x >= y

\* the points of the newline characters of the buffer, counted from 1
Newlines(b) == {i \in 1..Len(b) : b[i] = "\n"}

\* view.rowcol(pt)[0]: the row of a point, the point kept inside the buffer
row_at(b, pt) ==
    LET p == IF pt < 0 THEN 0 ELSE IF pt > Len(b) THEN Len(b) ELSE pt
    IN  Cardinality({i \in Newlines(b) : i <= p})

\* view.text_point(row, 0): the point a row starts at, the end of the buffer
\* for a row past the last one
text_point(b, row) ==
    IF row <= 0 THEN 0
    ELSE IF Cardinality(Newlines(b)) < row THEN Len(b)
    ELSE CHOOSE i \in Newlines(b) : Cardinality({j \in Newlines(b) : j <= i}) = row

\* view.full_line(pt): the line of a point with its newline
full_line(b, pt) ==
    [a |-> text_point(b, row_at(b, pt)), b |-> text_point(b, row_at(b, pt) + 1)]

\* the points at which the text pattern occurs in the buffer
Matches(b, pattern) ==
    {p \in 0..(Len(b) - Len(pattern)) : SubSeq(b, p + 1, p + Len(pattern)) = pattern}

\* view.find(pattern, start_pt): the first match at or after start_pt, or -1
view_find(b, pattern, start_pt) ==
    LET M == {p \in Matches(b, pattern) : p >= start_pt}
    IN  IF M = {} THEN -1 ELSE SetMin(M)

\* the last match that ends at or before end_pt, or -1
reverse_search(b, pattern, end_pt) ==
    LET M == {p \in Matches(b, pattern) : p + Len(pattern) <= end_pt}
    IN  IF M = {} THEN -1 ELSE SetMax(M)

DigitValue ==
    ("0" :> 0) @@ ("1" :> 1) @@ ("2" :> 2) @@ ("3" :> 3) @@ ("4" :> 4)
    @@ ("5" :> 5) @@ ("6" :> 6) @@ ("7" :> 7) @@ ("8" :> 8) @@ ("9" :> 9)

RECURSIVE _int_digits(_)
_int_digits(ds) ==
    IF ds = <<>> THEN 0
    ELSE 10 * _int_digits(SubSeq(ds, 1, Len(ds) - 1)) + DigitValue[ds[Len(ds)]]

\* int(token.content)
int(content) ==
    IF content[1] = "-" THEN 0 - _int_digits(Tail(content)) ELSE _int_digits(content)

RECURSIVE sum(_)
sum(ds) == IF ds = <<>> THEN 0 ELSE Head(ds) + sum(Tail(ds))

Line(n) == [kind |-> "line", line |-> n, why |-> ""]

Raise(why) == [kind |-> "error", line |-> 0, why |-> why]

\* the line of the mark '<' for one selection
mark_lt(b, s) == IF s.a < s.b THEN row_at(b, s.a) ELSE row_at(b, s.a - 1)

\* the line of the mark '>' for one selection
mark_gt_at_end(b, s) == row_at(b, s.b)

mark_gt(b, s) == IF s.a < s.b THEN row_at(b, s.b - 1) ELSE row_at(b, s.b)

\* RangeNode._resolve_mark
_resolve_mark(b, sl, name) ==
    IF name = <<"<">> THEN Line(SetMin({mark_lt(b, sl[j]) : j \in 1..Len(sl)}))
    ELSE IF name = <<">">> THEN Line(SetMax({mark_gt(b, sl[j]) : j \in 1..Len(sl)}))
    ELSE Raise("NotImplementedError")

\* the row of the end of the buffer, a trailing newline not counted
last_row_before_terminator(b) ==
    IF b # <<>> /\ b[Len(b)] = "\n" THEN row_at(b, Len(b) - 1) ELSE row_at(b, Len(b))

\* the row of the end of the buffer
last_row(b) == row_at(b, Len(b))

\* TokenDigits: line n is row n - 1, and -1 stands for "before the buffer"
digits_line_clamped(n) == IF n - 1 > 0 THEN n - 1 ELSE 0

digits_line(n) == IF n - 1 > -1 THEN n - 1 ELSE -1

\* TokenOffset
offset_line_first(current, ds) == IF ds = <<>> THEN current ELSE current + Head(ds)

offset_line(current, ds) == current + sum(ds)

\* TokenSearchForward: a search that starts after the current line
search_forward_next_line(b, pattern, current) ==
    LET m == view_find(b, pattern, text_point(b, current + 1))
    IN  IF m = -1 \/ row_at(b, m) <= current THEN Raise("pattern not found")
        ELSE Line(row_at(b, m))

\* TokenSearchForward
search_forward(b, pattern, current) ==
    LET m == view_find(b, pattern, text_point(b, current))
    IN  IF m = -1 THEN Raise("pattern not found") ELSE Line(row_at(b, m))

\* TokenSearchBackward
search_backward(b, pattern, current) ==
    LET m == reverse_search(b, pattern, text_point(b, current))
    IN  IF m = -1 THEN Raise("pattern not found") ELSE Line(row_at(b, m))

\* '$' resolved from the current line
_resolve_line_number_dollar_as_dot(b, sl, token, current) ==
    CASE token.kind \in {"dot", "dollar"} -> Line(row_at(b, text_point(b, current)))
      [] token.kind = "digits" -> Line(digits_line(int(token.content)))
      [] token.kind = "percent" -> Line(last_row(b))
      [] token.kind = "offset" -> Line(offset_line(current, token.content))
      [] token.kind = "search_forward" -> search_forward(b, token.content, current)
      [] token.kind = "search_backward" -> search_backward(b, token.content, current)
      [] token.kind = "mark" -> _resolve_mark(b, sl, token.content)
      [] OTHER -> Raise("NotImplementedError")

\* RangeNode._resolve_line_number(view, token, current)
_resolve_line_number(b, sl, token, current) ==
    CASE token.kind = "dot" -> Line(row_at(b, text_point(b, current)))
      [] token.kind = "digits" -> Line(digits_line(int(token.content)))
      [] token.kind \in {"percent", "dollar"} -> Line(last_row(b))
      [] token.kind = "offset" -> Line(offset_line(current, token.content))
      [] token.kind = "search_forward" -> search_forward(b, token.content, current)
      [] token.kind = "search_backward" -> search_backward(b, token.content, current)
      [] token.kind = "mark" -> _resolve_mark(b, sl, token.content)
      [] OTHER -> Raise("NotImplementedError")

\* RangeNode._resolve_line_reference: the tokens of one address applied in
\* turn to the line of the first selection; the second of two consecutive
\* searches does not start on the line the first one matched on
RECURSIVE _resolve_line_reference_from(_, _, _, _, _)
_resolve_line_reference_from(b, sl, line_reference, i, current) ==
    IF i > Len(line_reference) THEN Line(current)
    ELSE LET token == line_reference[i]
             both == /\ i > 1
                     /\ line_reference[i - 1].kind \in {"search_forward", "search_backward"}
                     /\ token.kind = "search_forward"
             from == IF both
                     THEN row_at(b, text_point(b, current + 1) - 1) + 1
                     ELSE current
             r == _resolve_line_number(b, sl, token, from)
         IN  IF r.kind = "error" THEN r
             ELSE _resolve_line_reference_from(b, sl, line_reference, i + 1, r.line)

_resolve_line_reference(b, sl, line_reference) ==
    _resolve_line_reference_from(b, sl, line_reference, 1, row_at(b, sl[1].b))

Region(a, b) == [kind |-> "region", a |-> a, b |-> b]

\* the start address of a range, the current line when it has no token
start_or_dot(start) == IF start = <<>> THEN <<[kind |-> "dot", content |-> <<>>]>> ELSE start

\* a start-only range whose line -1 is taken as the first line of the buffer
resolve_line0_clamped(b, sl, start) ==
    IF \E i \in 1..Len(start) : start[i].kind = "percent" THEN Region(0, Len(b))
    ELSE LET r == _resolve_line_reference(b, sl, start_or_dot(start))
         IN  IF r.kind = "error" THEN r
             ELSE LET l == full_line(b, text_point(b, r.line)) IN Region(l.a, l.b)

\* RangeNode(start=...).resolve(view) of a range without separator and end
resolve(b, sl, start) ==
    IF \E i \in 1..Len(start) : start[i].kind = "percent" THEN Region(0, Len(b))
    ELSE LET r == _resolve_line_reference(b, sl, start_or_dot(start))
         IN  IF r.kind = "error" THEN r
             ELSE IF r.line = -1 THEN Region(-1, -1)
             ELSE LET l == full_line(b, text_point(b, r.line)) IN Region(l.a, l.b)

\* a region that stops at the start of the end line
range_region_without_end_line(b, start_line, end_line) ==
    Region(text_point(b, start_line), text_point(b, end_line))

\* view.full_line(Region(text_point(start), text_point(end))): from the start
\* of the start line to the start of the line after the end line
range_region(b, start_line, end_line) ==
    Region(text_point(b, start_line), text_point(b, end_line + 1))

\* start and end of a range with a separator; after ';' the end address is
\* resolved from the start line, after ',' from the line of the selection
resolve_both(b, sl, start, end, separator) ==
    LET s == _resolve_line_reference(b, sl, start_or_dot(start))
    IN  IF s.kind = "error" THEN s
        ELSE LET e == _resolve_line_reference_from(b, sl, start_or_dot(end), 1,
                          IF separator = ";" THEN s.line ELSE row_at(b, sl[1].b))
             IN  IF e.kind = "error" THEN e
                 ELSE range_region(b, s.line, e.line)

HasPercent(tokens) == \E i \in 1..Len(tokens) : tokens[i].kind = "percent"

\* a range in which '%' counts only as the one token of a start-only range
resolve_node_percent_alone(b, sl, start, end, separator) ==
    IF separator = "" /\ Len(start) = 1 /\ HasPercent(start) THEN Region(0, Len(b))
    ELSE IF separator = ""
         THEN LET r == _resolve_line_reference(b, sl, start_or_dot(start))
              IN  IF r.kind = "error" THEN r
                  ELSE LET l == full_line(b, text_point(b, r.line)) IN Region(l.a, l.b)
         ELSE resolve_both(b, sl, start, end, separator)

\* RangeNode(start, end, separator).resolve(view)
resolve_node(b, sl, start, end, separator) ==
    IF HasPercent(start) \/ HasPercent(end) THEN Region(0, Len(b))
    ELSE IF separator = "" THEN resolve(b, sl, start)
    ELSE resolve_both(b, sl, start, end, separator)

TokenDot == [kind |-> "dot", content |-> <<>>]

TokenDollar == [kind |-> "dollar", content |-> <<>>]

TokenPercent == [kind |-> "percent", content |-> <<>>]

TokenDigits(content) == [kind |-> "digits", content |-> content]

TokenOffset(content) == [kind |-> "offset", content |-> content]

TokenMark(content) == [kind |-> "mark", content |-> content]

TokenSearchForward(content) == [kind |-> "search_forward", content |-> content]

TokenSearchBackward(content) == [kind |-> "search_backward", content |-> content]

\* the values the tests of _resolve_line_number assert

test_digits ==
    { [content |-> <<"1", "1">>, line |-> 10],
      [content |-> <<"3">>, line |-> 2],
      [content |-> <<"2">>, line |-> 1],
      [content |-> <<"1">>, line |-> 0],
      [content |-> <<"0">>, line |-> -1],
      [content |-> <<"-", "1">>, line |-> -1],
      [content |-> <<"-", "2">>, line |-> -1] }


test_dollar ==
    { [buf |-> <<>>, line |-> 0],
      [buf |-> <<"1">>, line |-> 0],
      [buf |-> <<"1", "\n">>, line |-> 1],
      [buf |-> <<"1", "\n", "2">>, line |-> 1],
      [buf |-> <<"1", "\n", "2", "\n">>, line |-> 2],
      [buf |-> <<"1", "\n", "2", "\n", "3", "\n">>, line |-> 3] }


test_dot_buf == <<"1", "1", "1", "\n", "2", "2", "2", "\n", "3", "3", "3", "\n">>

test_dot ==
    { [cur |-> 0, line |-> 0],
      [cur |-> 1, line |-> 1],
      [cur |-> 2, line |-> 2],
      [cur |-> 10, line |-> 3] }


test_mark_buf == <<"1", "1", "\n", "2", "2", "2", "\n", "3", "\n", "4", "4", "\n", "5", "5", "\n">>

test_mark ==
    { [sel |-> [a |-> 0, b |-> 0], name |-> <<"<">>, line |-> 0],
      [sel |-> [a |-> 0, b |-> 0], name |-> <<">">>, line |-> 0],
      [sel |-> [a |-> 1, b |-> 1], name |-> <<"<">>, line |-> 0],
      [sel |-> [a |-> 1, b |-> 1], name |-> <<">">>, line |-> 0],
      [sel |-> [a |-> 4, b |-> 4], name |-> <<"<">>, line |-> 1],
      [sel |-> [a |-> 4, b |-> 4], name |-> <<">">>, line |-> 1],
      [sel |-> [a |-> 10, b |-> 10], name |-> <<"<">>, line |-> 3],
      [sel |-> [a |-> 10, b |-> 10], name |-> <<">">>, line |-> 3],
      [sel |-> [a |-> 15, b |-> 15], name |-> <<"<">>, line |-> 4],
      [sel |-> [a |-> 15, b |-> 15], name |-> <<">">>, line |-> 5],
      [sel |-> [a |-> 0, b |-> 1], name |-> <<"<">>, line |-> 0],
      [sel |-> [a |-> 0, b |-> 1], name |-> <<">">>, line |-> 0],
      [sel |-> [a |-> 4, b |-> 5], name |-> <<"<">>, line |-> 1],
      [sel |-> [a |-> 4, b |-> 5], name |-> <<">">>, line |-> 1],
      [sel |-> [a |-> 10, b |-> 11], name |-> <<"<">>, line |-> 3],
      [sel |-> [a |-> 10, b |-> 11], name |-> <<">">>, line |-> 3],
      [sel |-> [a |-> 0, b |-> 15], name |-> <<"<">>, line |-> 0],
      [sel |-> [a |-> 0, b |-> 15], name |-> <<">">>, line |-> 4],
      [sel |-> [a |-> 5, b |-> 11], name |-> <<"<">>, line |-> 1],
      [sel |-> [a |-> 5, b |-> 11], name |-> <<">">>, line |-> 3] }


test_offset ==
    { [deltas |-> <<0>>, cur |-> 0, line |-> 0],
      [deltas |-> <<0>>, cur |-> 5, line |-> 5],
      [deltas |-> <<1>>, cur |-> 0, line |-> 1],
      [deltas |-> <<1>>, cur |-> 1, line |-> 2],
      [deltas |-> <<1>>, cur |-> 9, line |-> 10],
      [deltas |-> <<1, 2>>, cur |-> 0, line |-> 3],
      [deltas |-> <<1, 2>>, cur |-> 7, line |-> 10],
      [deltas |-> <<-1>>, cur |-> 0, line |-> -1],
      [deltas |-> <<-1>>, cur |-> 1, line |-> 0],
      [deltas |-> <<-1>>, cur |-> 6, line |-> 5],
      [deltas |-> <<-1, -4>>, cur |-> 15, line |-> 10] }


test_search_buf == <<"a", "b", "\n", "c", "d", "\n", "x", "\n", "a", "b", "c", "d", "\n", "y", "\n", "z", "\n">>

test_search_backward ==
    { [pattern |-> <<"f", "o", "o", "b", "a", "r">>, cur |-> 0, res |-> Raise("pattern not found")],
      [pattern |-> <<"f", "o", "o", "b", "a", "r">>, cur |-> 100, res |-> Raise("pattern not found")],
      [pattern |-> <<"a">>, cur |-> 100, res |-> Line(3)],
      [pattern |-> <<"a">>, cur |-> 5, res |-> Line(3)],
      [pattern |-> <<"a">>, cur |-> 4, res |-> Line(3)],
      [pattern |-> <<"a">>, cur |-> 3, res |-> Line(0)],
      [pattern |-> <<"a">>, cur |-> 2, res |-> Line(0)],
      [pattern |-> <<"a">>, cur |-> 1, res |-> Line(0)],
      [pattern |-> <<"a">>, cur |-> 0, res |-> Raise("pattern not found")],
      [pattern |-> <<"b", "c">>, cur |-> 5, res |-> Line(3)],
      [pattern |-> <<"b", "c">>, cur |-> 4, res |-> Line(3)],
      [pattern |-> <<"b", "c">>, cur |-> 3, res |-> Raise("pattern not found")] }


test_search_forward ==
    { [pattern |-> <<"f", "o", "o", "b", "a", "r">>, cur |-> 0, res |-> Raise("pattern not found")],
      [pattern |-> <<"f", "o", "o", "b", "a", "r">>, cur |-> 100, res |-> Raise("pattern not found")],
      [pattern |-> <<"a">>, cur |-> 0, res |-> Line(0)],
      [pattern |-> <<"a">>, cur |-> 1, res |-> Line(3)],
      [pattern |-> <<"a">>, cur |-> 2, res |-> Line(3)],
      [pattern |-> <<"a">>, cur |-> 3, res |-> Line(3)],
      [pattern |-> <<"a">>, cur |-> 4, res |-> Raise("pattern not found")],
      [pattern |-> <<"c", "d">>, cur |-> 0, res |-> Line(1)],
      [pattern |-> <<"c", "d">>, cur |-> 1, res |-> Line(1)],
      [pattern |-> <<"c", "d">>, cur |-> 2, res |-> Line(3)],
      [pattern |-> <<"c", "d">>, cur |-> 3, res |-> Line(3)],
      [pattern |-> <<"c", "d">>, cur |-> 4, res |-> Raise("pattern not found")] }

\* the regions the tests of RangeNode.resolve assert for ranges that have
\* a start only
test_resolve ==
    << [buf |-> <<"a", "a", "a", " ", "a", "a", "a", "\n", "b", "b", "b", " ", "b", "b", "b", "\n", "c", "c", "c", " ", "c", "c", "c", "\n">>,
        sel |-> <<[a |-> 8, b |-> 8]>>, start |-> <<>>,
        res |-> Region(8, 16)],
       [buf |-> <<"a", "a", "a", " ", "a", "a", "a", "\n", "b", "b", "b", " ", "b", "b", "b", "\n", "c", "c", "c", " ", "c", "c", "c", "\n">>,
        sel |-> <<[a |-> 0, b |-> 0]>>, start |-> <<>>,
        res |-> Region(0, 8)],
       [buf |-> <<"a", "a", "a", " ", "a", "a", "a", "\n", "b", "b", "b", " ", "b", "b", "b", "\n", "c", "c", "c", " ", "c", "c", "c", "\n", "d", "d", "d", " ", "d", "d", "d", "\n">>,
        sel |-> <<[a |-> 0, b |-> 0]>>, start |-> <<TokenOffset(<<1, 1>>)>>,
        res |-> Region(16, 24)],
       [buf |-> <<"a", "a", "a", " ", "a", "a", "a", "\n", "b", "b", "b", " ", "b", "b", "b", "\n", "c", "c", "c", " ", "c", "c", "c", "\n", "d", "d", "d", " ", "d", "d", "d", "\n">>,
        sel |-> <<[a |-> 0, b |-> 0]>>, start |-> <<TokenOffset(<<2>>)>>,
        res |-> Region(16, 24)],
       [buf |-> <<"a", "a", "a", " ", "a", "a", "a", "\n", "b", "b", "b", " ", "b", "b", "b", "\n", "c", "c", "c", " ", "c", "c", "c", "\n", "d", "d", "d", " ", "d", "d", "d", "\n">>,
        sel |-> <<[a |-> 0, b |-> 0]>>, start |-> <<TokenDigits(<<"2">>)>>,
        res |-> Region(8, 16)],
       [buf |-> <<"a", "a", "a", " ", "a", "a", "a", "\n", "b", "b", "b", " ", "b", "b", "b", "\n", "c", "c", "c", " ", "c", "c", "c", "\n", "d", "d", "d", " ", "d", "d", "d", "\n">>,
        sel |-> <<[a |-> 0, b |-> 0]>>, start |-> <<TokenDigits(<<"2">>), TokenOffset(<<2>>)>>,
        res |-> Region(24, 32)],
       [buf |-> <<"a", "a", "a", " ", "a", "a", "a", "\n", "b", "b", "b", " ", "b", "b", "b", "\n", "c", "c", "c", " ", "c", "c", "c", "\n", "d", "d", "d", " ", "d", "d", "d", "\n">>,
        sel |-> <<[a |-> 0, b |-> 0]>>, start |-> <<TokenDigits(<<"2">>), TokenOffset(<<1>>)>>,
        res |-> Region(16, 24)],
       [buf |-> <<"a", "a", "a", " ", "a", "a", "a", "\n", "b", "b", "b", " ", "b", "b", "b", "\n", "c", "c", "c", " ", "c", "c", "c", "\n", "d", "d", "d", " ", "d", "d", "d", "\n">>,
        sel |-> <<[a |-> 0, b |-> 0]>>, start |-> <<TokenPercent>>,
        res |-> Region(0, 32)],
       [buf |-> <<"a", "\n", "b", "\n", "c", "\n">>,
        sel |-> <<[a |-> 0, b |-> 0]>>, start |-> <<TokenDollar>>,
        res |-> Region(6, 6)],
       [buf |-> <<"a", "\n", "b", "\n", "c", "\n", "d", "\n">>,
        sel |-> <<[a |-> 5, b |-> 5]>>, start |-> <<TokenDollar>>,
        res |-> Region(8, 8)],
       [buf |-> <<"a", "\n", "b", "c", "d", "\n", "e", "\n">>,
        sel |-> <<[a |-> 2, b |-> 2]>>, start |-> <<TokenDot>>,
        res |-> Region(2, 6)],
       [buf |-> <<"a", "a", "a", " ", "a", "a", "a", "\n", "b", "b", "b", " ", "b", "b", "b", "\n", "c", "c", "c", " ", "c", "a", "t", "\n", "d", "d", "d", " ", "c", "a", "t", "\n">>,
        sel |-> <<[a |-> 0, b |-> 0]>>, start |-> <<TokenSearchForward(<<"c", "a", "t">>)>>,
        res |-> Region(16, 24)],
       [buf |-> <<"a", "a", "a", " ", "a", "a", "a", "\n", "b", "b", "b", " ", "b", "b", "b", "\n", "c", "c", "c", " ", "c", "a", "t", "\n", "d", "d", "d", " ", "d", "d", "d", "\n">>,
        sel |-> <<[a |-> 0, b |-> 0]>>, start |-> <<TokenSearchForward(<<"c", "a", "t">>), TokenOffset(<<1>>)>>,
        res |-> Region(24, 32)],
       [buf |-> <<"a", "a", "a", " ", "a", "a", "a", "\n", "b", "b", "b", " ", "b", "b", "b", "\n", "c", "c", "c", " ", "c", "a", "t", "\n", "d", "d", "d", " ", "c", "a", "t", "\n">>,
        sel |-> <<[a |-> 0, b |-> 0]>>, start |-> <<TokenSearchForward(<<"d", "o", "g">>)>>,
        res |-> Raise("pattern not found")],
       [buf |-> <<"a", "a", "a", " ", "a", "a", "a", "\n", "b", "b", "b", " ", "b", "b", "b", "\n", "c", "c", "c", " ", "c", "a", "t", "\n", "d", "d", "d", " ", "d", "d", "d", "\n", "e", "e", "e", " ", "e", "e", "e", "\n", "f", "f", "f", " ", "c", "a", "t", "\n">>,
        sel |-> <<[a |-> 0, b |-> 0]>>, start |-> <<TokenSearchForward(<<"c", "a", "t">>), TokenSearchForward(<<"c", "a", "t">>)>>,
        res |-> Region(40, 48)],
       [buf |-> <<"a", "a", "a", " ", "a", "a", "a", "\n", "b", "b", "b", " ", "b", "b", "b", "\n", "c", "c", "c", " ", "c", "a", "t", "\n", "d", "d", "d", " ", "d", "d", "d", "\n", "x", "x", "x", " ", "x", "x", "x", "\n">>,
        sel |-> <<[a |-> 40, b |-> 40]>>, start |-> <<TokenSearchBackward(<<"c", "a", "t">>)>>,
        res |-> Region(16, 24)],
       [buf |-> <<"a", "a", "a", " ", "a", "a", "a", "\n", "b", "b", "b", " ", "b", "b", "b", "\n", "c", "c", "c", " ", "c", "a", "t", "\n", "d", "d", "d", " ", "d", "d", "d", "\n", "x", "x", "x", " ", "x", "x", "x", "\n">>,
        sel |-> <<[a |-> 40, b |-> 40]>>, start |-> <<TokenSearchBackward(<<"c", "a", "t">>), TokenOffset(<<1>>)>>,
        res |-> Region(24, 32)],
       [buf |-> <<"a", "a", "a", " ", "a", "a", "a", "\n", "b", "b", "b", " ", "b", "b", "b", "\n", "c", "c", "c", " ", "c", "a", "t", "\n", "d", "d", "d", " ", "c", "a", "t", "\n">>,
        sel |-> <<[a |-> 32, b |-> 32]>>, start |-> <<TokenSearchBackward(<<"d", "o", "g">>)>>,
        res |-> Raise("pattern not found")],
       [buf |-> <<"a", "a", "a", " ", "a", "a", "a", "\n", "b", "b", "b", " ", "b", "b", "b", "\n", "c", "c", "c", " ", "c", "a", "t", "\n", "d", "d", "d", " ", "c", "a", "t", "\n", "e", "e", "e", " ", "e", "e", "e", "\n", "f", "f", "f", " ", "f", "f", "f", "\n">>,
        sel |-> <<[a |-> 48, b |-> 48]>>, start |-> <<TokenSearchBackward(<<"c", "a", "t">>), TokenSearchBackward(<<"c", "a", "t">>)>>,
        res |-> Region(16, 24)],
       [buf |-> <<"x", "x", "x", " ", "x", "x", "x", "\n", "a", "a", "a", " ", "a", "a", "a", "\n", "x", "x", "x", " ", "x", "x", "x", "\n", "b", "b", "b", " ", "b", "b", "b", "\n">>,
        sel |-> <<[a |-> 8, b |-> 10]>>, start |-> <<TokenDigits(<<"0">>)>>,
        res |-> Region(-1, -1)],
       [buf |-> <<"x", "x", "x", " ", "x", "x", "x", "\n", "a", "a", "a", " ", "a", "a", "a", "\n", "x", "x", "x", " ", "x", "x", "x", "\n", "b", "b", "b", " ", "b", "b", "b", "\n">>,
        sel |-> <<[a |-> 8, b |-> 10]>>, start |-> <<TokenMark(<<"<">>)>>,
        res |-> Region(8, 16)],
       [buf |-> <<"x", "x", "x", " ", "x", "x", "x", "\n", "a", "a", "a", " ", "a", "a", "a", "\n", "x", "x", "x", " ", "x", "x", "x", "\n", "b", "b", "b", " ", "b", "b", "b", "\n", "x", "x", "x", " ", "x", "x", "x", "\n", "c", "c", "c", " ", "c", "c", "c", "\n">>,
        sel |-> <<[a |-> 8, b |-> 10], [a |-> 24, b |-> 27]>>, start |-> <<TokenMark(<<"<">>)>>,
        res |-> Region(8, 16)],
       [buf |-> <<"x", "x", "x", " ", "x", "x", "x", "\n", "a", "a", "a", " ", "a", "a", "a", "\n", "x", "x", "x", " ", "x", "x", "x", "\n", "b", "b", "b", " ", "b", "b", "b", "\n">>,
        sel |-> <<[a |-> 8, b |-> 10]>>, start |-> <<TokenMark(<<">">>)>>,
        res |-> Region(8, 16)],
       [buf |-> <<"x", "x", "x", " ", "x", "x", "x", "\n", "a", "a", "a", " ", "a", "a", "a", "\n", "x", "x", "x", " ", "x", "x", "x", "\n", "b", "b", "b", " ", "b", "b", "b", "\n", "x", "x", "x", " ", "x", "x", "x", "\n", "c", "c", "c", " ", "c", "c", "c", "\n">>,
        sel |-> <<[a |-> 8, b |-> 10]>>, start |-> <<TokenMark(<<"<">>), TokenMark(<<">">>)>>,
        res |-> Region(8, 16)] >>

\* the regions the tests of RangeNode.resolve assert for ranges that have
\* a start, an end and the separator ','
test_resolve_comma ==
    << [buf |-> <<"a", "\n", "b", "c", "d", "\n", "e", "f", "\n">>,
        sel |-> <<[a |-> 4, b |-> 4]>>, start |-> <<TokenDot>>, end |-> <<TokenDollar>>,
        res |-> Region(2, 9)],
       [buf |-> <<"a", "\n", "b", "c", "d", "\n", "e", "f", "\n", "g", "\n", "h", "i", "\n">>,
        sel |-> <<[a |-> 3, b |-> 3]>>, start |-> <<TokenDot>>, end |-> <<TokenDigits(<<"4">>)>>,
        res |-> Region(2, 11)],
       [buf |-> <<"a", "\n", "b", "\n">>,
        sel |-> <<[a |-> 0, b |-> 0]>>, start |-> <<TokenDigits(<<"1">>)>>, end |-> <<TokenDollar>>,
        res |-> Region(0, 4)],
       [buf |-> <<"a", "\n", "b", "\n", "c", "\n", "d", "e", "\n">>,
        sel |-> <<[a |-> 4, b |-> 4]>>, start |-> <<TokenDigits(<<"1">>)>>, end |-> <<TokenDollar>>,
        res |-> Region(0, 9)],
       [buf |-> <<"a", "\n", "b", "\n", "c", "\n", "d", "e", "\n">>,
        sel |-> <<[a |-> 1, b |-> 1]>>, start |-> <<TokenDigits(<<"3">>)>>, end |-> <<TokenDollar>>,
        res |-> Region(4, 9)] >>

(***************************************************************************)
(* The views and addresses the resolver is run on: every buffer over a     *)
(* small alphabet up to MaxBuf characters with every selection list of one *)
(* or two regions, and the buffers, selections and tokens of the tests.    *)
(***************************************************************************)
RangeAlphabet == {"a", "b", "\n"}

Buffers == SeqsUpTo(RangeAlphabet, MaxBuf)

CurLines == 0..MaxCur

DigitContents == {<<"0">>, <<"1">>, <<"2">>, <<"3">>, <<"1", "1">>, <<"-", "1">>, <<"-", "2">>}

Deltas == {-1, 0, 1, 2}

DeltaLists == SeqsUpTo(Deltas, MaxDeltas)

Patterns == {<<"a">>, <<"b">>, <<"a", "b">>}

MarkNames == {<<"<">>, <<">">>, <<>>, <<"a">>, <<"f", "o", "o", "b", "a", "r">>}

Regions(n) == {r \in [a : 0..n, b : 0..n] : r.a <= r.b}

\* view.sel(): one region, or two sorted regions that do not overlap
SelLists(n) ==
    {<<r>> : r \in Regions(n)}
    \cup {p \in Regions(n) \X Regions(n) : p[1].b <= p[2].a /\ p[1] # p[2]}

Caret == <<[a |-> 0, b |-> 0]>>

PrimaryAddresses == {<<>>, <<TokenDigits(<<"1">>)>>, <<TokenDigits(<<"2">>)>>, <<TokenDollar>>}

\* the start and end addresses of the ranges that have a separator
SeparatedStarts ==
    << <<>>, <<TokenDot>>, <<TokenDigits(<<"1">>)>>, <<TokenDigits(<<"2">>)>>,
       <<TokenDot, TokenOffset(<<1>>)>>, <<TokenPercent>> >>

SeparatedEnds ==
    << <<>>, <<TokenDot>>, <<TokenDollar>>, <<TokenDigits(<<"2">>)>>,
       <<TokenDigits(<<"3">>)>>, <<TokenOffset(<<1>>)>>,
       <<TokenSearchForward(<<"a">>)>>, <<TokenPercent>>,
       <<TokenDollar, TokenPercent>> >>

Separators == {",", ";"}

StartLists ==
    << <<>>, <<TokenDot>>, <<TokenDollar>>, <<TokenPercent>>,
       <<TokenPercent, TokenOffset(<<1>>)>>, <<TokenDigits(<<"2">>), TokenPercent>>,
       <<TokenDigits(<<"0">>)>>, <<TokenDigits(<<"2">>)>>,
       <<TokenSearchForward(<<"a">>)>>,
       <<TokenSearchForward(<<"a">>), TokenSearchForward(<<"a">>)>>,
       <<TokenSearchForward(<<"a">>), TokenOffset(<<1>>)>>,
       <<TokenSearchBackward(<<"a">>)>>,
       <<TokenSearchBackward(<<"a">>), TokenSearchBackward(<<"a">>)>>,
       <<TokenMark(<<"<">>)>>, <<TokenMark(<<">">>)>>,
       <<TokenMark(<<"<">>), TokenMark(<<">">>)>> >>

LineCall(b, sl, token, current) ==
    /\ rphase = "line"
    /\ buf = b /\ sel = sl /\ rtok = <<token>> /\ cur = current
    /\ rend = <<>> /\ rsep = ""

RangeCall(b, sl, start) ==
    /\ rphase = "range"
    /\ buf = b /\ sel = sl /\ rtok = start /\ cur = 0
    /\ rend = <<>> /\ rsep = ""

RangeEndCall(b, sl, start, end, separator) ==
    /\ rphase = "range"
    /\ buf = b /\ sel = sl /\ rtok = start /\ cur = 0
    /\ rend = end /\ rsep = separator

InitRange ==
    /\ TokIdle /\ BareIdle /\ HandlersIdle /\ CollectIdle
    /\ GenIdle /\ QueryIdle
    /\ rres = [kind |-> "none"]
    /\ \/ \E b \in Buffers, current \in CurLines :
            \/ \E token \in {TokenDot, TokenDollar, TokenPercent,
                             [kind |-> "unknown", content |-> <<>>]} :
                   LineCall(b, Caret, token, current)
            \/ \E c \in DigitContents : LineCall(b, Caret, TokenDigits(c), current)
            \/ \E ds \in DeltaLists : LineCall(b, Caret, TokenOffset(ds), current)
            \/ \E p \in Patterns :
                   \/ LineCall(b, Caret, TokenSearchForward(p), current)
                   \/ LineCall(b, Caret, TokenSearchBackward(p), current)
       \/ \E b \in Buffers : \E sl \in SelLists(Len(b)), name \in MarkNames :
              LineCall(b, sl, TokenMark(name), 0)
       \/ \E t \in test_digits, current \in CurLines :
              LineCall(<<>>, Caret, TokenDigits(t.content), current)
       \/ \E t \in test_dollar, current \in CurLines :
              \/ LineCall(t.buf, Caret, TokenDollar, current)
              \/ LineCall(t.buf, Caret, TokenPercent, current)
       \/ \E t \in test_dot : LineCall(test_dot_buf, Caret, TokenDot, t.cur)
       \/ \E t \in test_mark : LineCall(test_mark_buf, <<t.sel>>, TokenMark(t.name), 0)
       \/ \E t \in test_offset : LineCall(<<>>, Caret, TokenOffset(t.deltas), t.cur)
       \/ \E t \in test_search_backward :
              LineCall(test_search_buf, Caret, TokenSearchBackward(t.pattern), t.cur)
       \/ \E t \in test_search_forward :
              LineCall(test_search_buf, Caret, TokenSearchForward(t.pattern), t.cur)
       \/ \E b \in Buffers : \E sl \in SelLists(Len(b)), i \in 1..Len(StartLists) :
              RangeCall(b, sl, StartLists[i])
       \/ \E b \in Buffers : \E r \in Regions(Len(b)) :
            \/ \E i \in 1..Len(SeparatedStarts), j \in 1..Len(SeparatedEnds),
                   separator \in Separators :
                   RangeEndCall(b, <<r>>, SeparatedStarts[i], SeparatedEnds[j], separator)
            \/ \E primary \in PrimaryAddresses, ds \in DeltaLists :
                   RangeCall(b, <<r>>, primary \o <<TokenOffset(ds)>>)
       \/ \E i \in 1..Len(test_resolve) :
              RangeCall(test_resolve[i].buf, test_resolve[i].sel, test_resolve[i].start)
       \/ \E i \in 1..Len(test_resolve_comma) :
              RangeEndCall(test_resolve_comma[i].buf, test_resolve_comma[i].sel,
                           test_resolve_comma[i].start, test_resolve_comma[i].end, ",")

\* one call of RangeNode._resolve_line_number
ResolveLineNumber ==
    /\ rphase = "line"
    /\ rres' = _resolve_line_number(buf, sel, rtok[1], cur)
    /\ rphase' = "line_done"
    /\ UNCHANGED <<buf, sel, rtok, rend, rsep, cur, tokvars, mapleader, hvars, barevars, collectvars, genvars, queryvars>>

\* one call of RangeNode.resolve
Resolve ==
    /\ rphase = "range"
    /\ rres' = resolve_node(buf, sel, rtok, rend, rsep)
    /\ rphase' = "range_done"
    /\ UNCHANGED <<buf, sel, rtok, rend, rsep, cur, tokvars, mapleader, hvars, barevars, collectvars, genvars, queryvars>>

NextRange == ResolveLineNumber \/ Resolve

SpecRange == InitRange /\ [][NextRange]_vars

(***************************************************************************)
(* The pending command state of a view and the command catalog, as the     *)
(* handlers see them through nv/settings.py, nv/state.py and the           *)
(* nv_feed_key window command.                                             *)
(*   motion: "none", "l" and "cr" (plain motions; "cr" is the motion of    *)
(*           the key <cr>, which a line feed and <enter> also name) or     *)
(*           "/" (a motion with an input parser; minp is its accept_input) *)
(*   action: "none", "d" (an operator that needs a motion), "i", "dot",    *)
(*           "u", "redo" (actions that need none)                          *)
(***************************************************************************)
Views == {"A", "B"}

T_esc == bracket(K_esc)

T_cr == bracket(K_cr)

T_redo == <<"<", "C", "-", "r", ">">>

\* Python's None where a key is expected
None == <<"None">>

DefaultRegister == "\""

NoRepeat == [kind |-> "none", text |-> <<>>, mode |-> "none"]

Idle(mode) ==
    [mode |-> mode, motion |-> "none", minp |-> FALSE, action |-> "none",
     register |-> DefaultRegister, capreg |-> FALSE, seq |-> <<>>,
     interactive |-> TRUE, repeat |-> NoRepeat]

\* state.reset_command_data(view, setReg=True)
reset_command_data(s, setReg) ==
    [s EXCEPT !.motion = "none", !.minp = FALSE, !.action = "none", !.seq = <<>>,
              !.register = IF setReg THEN DefaultRegister ELSE @,
              !.capreg = IF setReg THEN FALSE ELSE @]

\* state.must_collect_input(view, motion, action)
must_collect_input(s) == s.motion # "none" /\ s.minp

MotionRequired(action) == action = "d"

\* state.is_runnable(view)
is_runnable(s) ==
    /\ ~must_collect_input(s)
    /\ \/ s.action # "none" /\ s.motion # "none"
       \/ s.action # "none" /\ ~MotionRequired(s.action)
       \/ s.motion # "none"

\* state.evaluate_state(view): runs the command when it is runnable
evaluate_state(s) ==
    IF ~is_runnable(s) THEN s
    ELSE [reset_command_data(s, TRUE) EXCEPT
            !.mode = IF s.action = "i" THEN "insert"
                     ELSE IF s.mode = "operator_pending" THEN "normal" ELSE @]

\* vim.enter_normal_mode(window)
enter_normal_mode(s) == [reset_command_data(s, TRUE) EXCEPT !.mode = "normal"]

\* the command lookup of nv_feed_key for one key
resolve_key(s, key) ==
    LET s1 == [s EXCEPT !.seq = @ \o key] IN
    IF str_lower(key) = T_esc THEN enter_normal_mode(s)
    ELSE IF s.mode = "insert" THEN s
    ELSE IF s.capreg THEN
        [s1 EXCEPT !.capreg = FALSE, !.register = IF Len(key) = 1 THEN key[1] ELSE @]
    ELSE IF must_collect_input(s) THEN
        IF key = T_cr THEN [s1 EXCEPT !.minp = FALSE] ELSE s1
    ELSE IF key = <<"\"">> THEN [s1 EXCEPT !.capreg = TRUE]
    ELSE IF key = <<"l">> THEN [s1 EXCEPT !.motion = "l", !.minp = FALSE]
    ELSE IF key = T_cr THEN [s1 EXCEPT !.motion = "cr", !.minp = FALSE]
    ELSE IF key = <<"/">> THEN [s1 EXCEPT !.motion = "/", !.minp = TRUE]
    ELSE IF key = <<"d">> THEN
        [s1 EXCEPT !.action = "d",
                   !.mode = IF @ = "normal" THEN "operator_pending" ELSE @]
    ELSE IF key = <<"i">> THEN [s1 EXCEPT !.action = "i"]
    ELSE IF key = <<".">> THEN [s1 EXCEPT !.action = "dot"]
    ELSE IF key = <<"u">> THEN [s1 EXCEPT !.action = "u"]
    ELSE IF key = T_redo THEN [s1 EXCEPT !.action = "redo"]
    ELSE reset_command_data(s, TRUE)

\* window.run_command('nv_feed_key', {'key': key, 'do_eval': do_eval, ...})
nv_feed_key(s, key, do_eval) ==
    IF do_eval THEN evaluate_state(resolve_key(s, key)) ELSE resolve_key(s, key)

\* whether the command has an input parser (the search motion has an
\* interactive one)
HasInputParser(command) == command = "/"

(***************************************************************************)
(* What a handler did to the editor: the undo group of                     *)
(* utils.gluing_undo_groups and the commands it ran, in order.             *)
(***************************************************************************)
NoLog == [glue |-> "none", nacq |-> 0, ev |-> <<>>]

Did(lg, op, key) ==
    [lg EXCEPT !.ev = Append(@, [op |-> op, key |-> key, held |-> lg.glue = "held"])]

\* entering `with gluing_undo_groups(view)`
glue_enter(lg) == [Did(lg, "acquire", None) EXCEPT !.glue = "held", !.nacq = @ + 1]

\* what gluing_undo_groups does when the with block is left
glue_exit(lg) == [Did(lg, "release", None) EXCEPT !.glue = "released"]

\* a second loop that runs before the undo group is entered
with_enter_late(lg) == lg

\* line 253 (and 105): with gluing_undo_groups(self.view)
with_enter(lg) == glue_enter(lg)

\* with_exit for a group released by hand after the block, which an
\* exception skips
with_exit_unscoped(lg, how) == IF how = "raise" THEN lg ELSE glue_exit(lg)

\* the with statement of handle(): however the block is left ("return",
\* "fall" through its end, "raise"), the context manager is exited
with_exit(lg, how) == glue_exit(lg)

(***************************************************************************)
(* ProcessNotationHandler.  h[v] is the handler created for view v:        *)
(*   keys, cont: the constructor's arguments; L: the module's _L           *)
(*   lkeys: the local `keys` of handle(), rebound when the leading         *)
(*          motions are stripped                                           *)
(*   pos: the position of the generator keys_iter in the string it         *)
(*        tokenizes; i: the index enumerate() gives the next token         *)
(*   pc: "start", "prime" (the first loop), "primed" (after it), "exec"    *)
(*       (the second loop, inside the undo group), "unsatisfied" (after    *)
(*       the with block), "done" (handle() returned), "raised" (an         *)
(*       exception left handle()), "off" (no handler)                      *)
(* A list built by pre-iterating tokenize_keys holds the tokens the        *)
(* generator yields, so both are read through pos; pre-iterating raises    *)
(* at once what the generator raises when it reaches the bad group.        *)
(***************************************************************************)
\* self.view
\* a handler that reaches its view through one shared active view
view_of_active(v) == "A"

view_of(v) == v

NoHandler ==
    [kind |-> "none", pc |-> "off", keys |-> <<>>, lkeys |-> <<>>, cont |-> FALSE,
     L |-> FALSE, initial_mode |-> "none", leading |-> <<>>, pos |-> 1, i |-> 0,
     key_cont |-> None, key_reg |-> {}, reg_i_offset |-> 0, entry |-> Idle("normal")]

\* entry: the pending state of the view when handle() is called
NewHandler(kind, keys, cont, L, entry) ==
    [NoHandler EXCEPT !.kind = kind, !.pc = "start", !.keys = keys, !.lkeys = keys,
                      !.cont = cont, !.L = L, !.entry = entry]

\* the keys whose text is not stored for '.'
repeat_excluded == {<<".">>, <<"u">>, T_redo}

\* handle_finally storing the stripped keys alone
handle_finally_stripped(s, hv) ==
    [s EXCEPT !.interactive = TRUE,
              !.repeat = IF (hv.leading \o hv.lkeys) \in repeat_excluded THEN @
                         ELSE [kind |-> "vi", text |-> hv.lkeys, mode |-> hv.initial_mode]]

\* the finally clause of handle(): lines 285-288
handle_finally(s, hv) ==
    [s EXCEPT !.interactive = TRUE,
              !.repeat = IF (hv.leading \o hv.lkeys) \in repeat_excluded THEN @
                         ELSE [kind |-> "vi", text |-> hv.leading \o hv.lkeys,
                               mode |-> hv.initial_mode]]

\* a finally clause that stores no repeat data
handle_finally_log_silent(lg, hv) == lg

handle_finally_log(lg, hv) ==
    IF (hv.leading \o hv.lkeys) \in repeat_excluded THEN lg
    ELSE Did(lg, "set_repeat_data", hv.leading \o hv.lkeys)

\* a command definition as _collect_input reads it: accept_input, and
\* input_parser ("None", or a parser that is interactive or not)
Command(name, accept_input, input_parser) ==
    [name |-> name, accept_input |-> accept_input, input_parser |-> input_parser]

\* get_motion() or get_action() of a view with none pending
NoCommand == Command("none", FALSE, "None")

\* a choice that looks at the action first
_collect_input_command_action_first(motion, action) ==
    IF motion # NoCommand /\ action # NoCommand
        THEN (IF action.accept_input THEN action ELSE motion)
    ELSE IF action # NoCommand THEN action ELSE motion

\* lines 313-319 (and 144-150): the command _collect_input picks
_collect_input_command(motion, action) ==
    IF motion # NoCommand /\ action # NoCommand
        THEN (IF motion.accept_input THEN motion ELSE action)
    ELSE IF action # NoCommand THEN action ELSE motion

\* lines 321-333 (and 152-164): how _collect_input ends.  The arguments of
\* the log call read command.input_parser and call its is_interactive(),
\* which raises AttributeError on None; except IndexError does not catch it.
_collect_input_outcome(command) ==
    IF command = NoCommand \/ command.input_parser = "None" THEN "AttributeError"
    ELSE IF command.input_parser = "interactive" THEN "run_interactive_command"
    ELSE "return"

\* get_motion(view) and get_action(view) of the pending state s
get_motion(s) ==
    IF s.motion = "none" THEN NoCommand
    ELSE Command(s.motion, s.minp, IF HasInputParser(s.motion) THEN "interactive" ELSE "None")

get_action(s) ==
    IF s.action = "none" THEN NoCommand
    ELSE Command(s.action, FALSE, IF HasInputParser(s.action) THEN "interactive" ELSE "None")

\* the name of the command _collect_input picks for the pending state s
collect_command(s) == _collect_input_command(get_motion(s), get_action(s)).name

\* _collect_input: lines 306-333.  Reading command.input_parser of None, or
\* is_interactive() of a missing parser, raises AttributeError, which the
\* except IndexError clause does not catch; the finally clause still runs.
_collect_input_raises(s) ==
    collect_command(s) = "none" \/ ~HasInputParser(collect_command(s))

_collect_input(s) == [s EXCEPT !.interactive = TRUE]

_collect_input_log(lg, s) ==
    LET lg1 == Did(lg, "_collect_input", <<collect_command(s)>>) IN
    IF _collect_input_raises(s) THEN Did(lg1, "raise", <<"AttributeError">>)
    ELSE Did(lg1, "run_interactive_command", None)

\* a first loop that feeds the keys of a continuation as well
breaks_early_never(hv, s) == FALSE

\* line 202: a continuation that finds an action primed feeds no key
breaks_early(hv, s) == hv.cont /\ s.action # "none"

\* a reset that always puts the default register back
setReg_always(s) == TRUE

\* lines 214-216 (and 65-67): setReg is False when the register is not '"'
setReg(s) == s.register = DefaultRegister

\* a skip decided by the index of the second loop alone
skips_key_at_loop_index(hv, key) == <<hv.i, key>> \in hv.key_reg

\* lines 270-273: the key recorded in key_reg for this original position
skips_key(hv, key) == <<hv.i + hv.reg_i_offset, key>> \in hv.key_reg

\* a loop that gives '<Esc>' to the dispatch like any key
is_esc_never(key) == FALSE

\* line 264: key.lower() == '<esc>'
is_esc(key) == str_lower(key) = T_esc

\* characters inserted according to the mode handle() was entered in
inserts_chars_by_initial_mode(s, hv) == hv.initial_mode \in {"insert", "replace"}

\* line 268, read for every key: get_mode(self.view) in (INSERT, REPLACE)
inserts_chars(s, hv) == s.mode \in {"insert", "replace"}

\* lines 178-199
handle_start(v) ==
    /\ h[v].kind = "seq" /\ h[v].pc = "start"
    /\ LET s == st[view_of(v)]
           bad == h[v].L /\ ~tokenize_keys(h[v].keys, mapleader).ok
       IN  /\ st' = [st EXCEPT ![view_of(v)] = [s EXCEPT !.interactive = FALSE]]
           /\ h' = [h EXCEPT ![v] = [@ EXCEPT !.initial_mode = s.mode,
                                              !.pc = IF bad THEN "raised" ELSE "prime"]]
           /\ log' = [log EXCEPT ![v] = IF bad THEN Did(@, "raise", <<"ValueError">>) ELSE @]
    /\ UNCHANGED <<tokvars, mapleader, barevars, rangevars, collectvars, genvars, queryvars>>

\* one pass of the loop of lines 200-229, or its end
handle_prime(v) ==
    /\ h[v].kind = "seq" /\ h[v].pc = "prime"
    /\ LET hv == h[v]
           s == st[view_of(v)]
           r == _tokenize_one(hv.keys, hv.pos, mapleader)
       IN  IF r.kind = "eof" THEN
               /\ h' = [h EXCEPT ![v] = [hv EXCEPT !.pc = "primed"]]
               /\ UNCHANGED <<st, log>>
           ELSE IF r.kind = "err" THEN
               /\ h' = [h EXCEPT ![v] = [hv EXCEPT !.pc = "raised"]]
               /\ log' = [log EXCEPT ![v] = Did(@, "raise", <<"ValueError">>)]
               /\ UNCHANGED st
           ELSE IF breaks_early(hv, s) THEN
               /\ h' = [h EXCEPT ![v] = [hv EXCEPT !.pc = "primed", !.key_cont = r.tok]]
               /\ UNCHANGED <<st, log>>
           ELSE
               \/ \* the dispatched command raises
                  /\ h' = [h EXCEPT ![v] = [hv EXCEPT !.pc = "raised"]]
                  /\ log' = [log EXCEPT ![v] = Did(@, "raise", r.tok)]
                  /\ UNCHANGED st
               \/ LET s1 == nv_feed_key(s, r.tok, FALSE)
                      key_reg == IF s1.capreg # s.capreg
                                     THEN hv.key_reg \cup {<<hv.i, r.tok>>}
                                     ELSE hv.key_reg
                      h1 == [hv EXCEPT !.pos = r.pos, !.i = @ + 1, !.key_reg = key_reg]
                      lg1 == Did(log[v], "feed_no_eval", r.tok)
                  IN  IF s1.action # "none" THEN
                          LET s2 == reset_command_data(s1, setReg(s1)) IN
                          /\ st' = [st EXCEPT ![view_of(v)] =
                                 [s2 EXCEPT !.mode = IF @ = "operator_pending"
                                                         THEN "normal" ELSE @]]
                          /\ h' = [h EXCEPT ![v] = [h1 EXCEPT !.pc = "primed"]]
                          /\ log' = [log EXCEPT ![v] = lg1]
                      ELSE IF is_runnable(s1) THEN
                          /\ st' = [st EXCEPT ![view_of(v)] =
                                 reset_command_data(evaluate_state(s1), TRUE)]
                          /\ h' = [h EXCEPT ![v] = [h1 EXCEPT !.leading = @ \o s1.seq]]
                          /\ log' = [log EXCEPT ![v] = Did(lg1, "leading_motion", s1.seq)]
                      ELSE
                          /\ st' = [st EXCEPT ![view_of(v)] = evaluate_state(s1)]
                          /\ h' = [h EXCEPT ![v] = h1]
                          /\ log' = [log EXCEPT ![v] = lg1]
    /\ UNCHANGED <<tokvars, mapleader, barevars, rangevars, collectvars, genvars, queryvars>>

\* refeeds_key for a handler that takes every sequence for a continuation
refeeds_key_always(hv) == TRUE

\* line 232 (and line 83): a continuation feeds the key again, with do_eval
\* True, where a first sequence collects the input
refeeds_key(hv) == hv.cont

\* lines 251-252: the second loop runs unless a motion is pending alone
runs_keys(s) == ~(s.motion # "none" /\ s.action = "none")

\* lines 231-262: after the first loop, up to the entry of the second
handle_primed(v) ==
    /\ h[v].kind = "seq" /\ h[v].pc = "primed"
    /\ LET hv == h[v]
           s == st[view_of(v)]
           lead_toks == tokenize_keys(hv.leading, mapleader)
           key_toks == tokenize_keys(hv.lkeys, mapleader)
           n == Len(lead_toks.toks)
           stripped == join(SubSeq(key_toks.toks, n + 1, Len(key_toks.toks)))
           h1 == IF hv.leading = <<>> THEN hv
                 ELSE [hv EXCEPT !.lkeys = stripped, !.reg_i_offset = n]
       IN  IF must_collect_input(s) THEN
               IF refeeds_key(hv) THEN
                   \/ /\ h' = [h EXCEPT ![v] = [hv EXCEPT !.pc = "raised"]]
                      /\ log' = [log EXCEPT ![v] = Did(@, "raise", hv.key_cont)]
                      /\ UNCHANGED st
                   \/ /\ st' = [st EXCEPT ![view_of(v)] = nv_feed_key(s, hv.key_cont, TRUE)]
                      /\ h' = [h EXCEPT ![v] = [hv EXCEPT !.pc = "done"]]
                      /\ log' = [log EXCEPT ![v] = Did(@, "feed_eval", hv.key_cont)]
               ELSE
                   /\ st' = [st EXCEPT ![view_of(v)] = _collect_input(s)]
                   /\ h' = [h EXCEPT ![v] =
                          [hv EXCEPT !.pc = IF _collect_input_raises(s)
                                                THEN "raised" ELSE "done"]]
                   /\ log' = [log EXCEPT ![v] = _collect_input_log(@, s)]
           ELSE IF hv.leading # <<>> /\ Len(hv.leading) = Len(hv.lkeys) THEN
               /\ st' = [st EXCEPT ![view_of(v)] = [s EXCEPT !.interactive = TRUE]]
               /\ h' = [h EXCEPT ![v] = [hv EXCEPT !.pc = "done"]]
               /\ UNCHANGED log
           ELSE IF hv.leading # <<>> /\ ~(lead_toks.ok /\ key_toks.ok) THEN
               \* tokenize_keys raises at line 247 or 248
               /\ h' = [h EXCEPT ![v] = [hv EXCEPT !.pc = "raised"]]
               /\ log' = [log EXCEPT ![v] = Did(@, "raise", <<"ValueError">>)]
               /\ UNCHANGED st
           ELSE IF ~runs_keys(s) THEN
               /\ h' = [h EXCEPT ![v] = [h1 EXCEPT !.pc = "unsatisfied"]]
               /\ UNCHANGED <<st, log>>
           ELSE IF hv.L /\ ~tokenize_keys(h1.lkeys, mapleader).ok THEN
               \* the pre-iteration of line 257 raises inside the try
               /\ st' = [st EXCEPT ![view_of(v)] = handle_finally(s, h1)]
               /\ h' = [h EXCEPT ![v] = [h1 EXCEPT !.pc = "raised"]]
               /\ log' = [log EXCEPT ![v] =
                      with_exit(handle_finally_log(Did(with_enter(@), "raise", <<"ValueError">>), h1), "raise")]
           ELSE
               /\ h' = [h EXCEPT ![v] = [h1 EXCEPT !.pc = "exec", !.pos = 1, !.i = 0]]
               /\ log' = [log EXCEPT ![v] = with_enter(@)]
               /\ UNCHANGED st
    /\ UNCHANGED <<tokvars, mapleader, barevars, rangevars, collectvars, genvars, queryvars>>

\* one pass of the loop of lines 263-281, or its end and lines 282-288
handle_exec(v) ==
    /\ h[v].kind = "seq" /\ h[v].pc = "exec"
    /\ LET hv == h[v]
           s == st[view_of(v)]
           r == _tokenize_one(hv.lkeys, hv.pos, mapleader)
           h1 == [hv EXCEPT !.pos = IF r.kind = "tok" THEN r.pos ELSE @, !.i = @ + 1]
       IN  IF r.kind = "err" THEN
               /\ st' = [st EXCEPT ![view_of(v)] = handle_finally(s, hv)]
               /\ h' = [h EXCEPT ![v] = [hv EXCEPT !.pc = "raised"]]
               /\ log' = [log EXCEPT ![v] =
                      with_exit(handle_finally_log(Did(@, "raise", <<"ValueError">>), hv), "raise")]
           ELSE IF r.kind = "eof" THEN
               /\ st' = [st EXCEPT ![view_of(v)] = handle_finally(s, hv)]
               /\ h' = [h EXCEPT ![v] =
                      [hv EXCEPT !.pc = IF must_collect_input(s)
                                            THEN "unsatisfied" ELSE "done"]]
               /\ log' = [log EXCEPT ![v] =
                      with_exit(handle_finally_log(@, hv),
                                IF must_collect_input(s) THEN "fall" ELSE "return")]
           ELSE IF is_esc(r.tok) THEN
               /\ st' = [st EXCEPT ![view_of(v)] = enter_normal_mode(s)]
               /\ h' = [h EXCEPT ![v] = h1]
               /\ log' = [log EXCEPT ![v] = Did(@, "enter_normal_mode", r.tok)]
           ELSE IF ~inserts_chars(s, hv) THEN
               IF skips_key(hv, r.tok) THEN
                   /\ h' = [h EXCEPT ![v] = h1]
                   /\ UNCHANGED <<st, log>>
               ELSE
                   \/ /\ st' = [st EXCEPT ![view_of(v)] = handle_finally(s, hv)]
                      /\ h' = [h EXCEPT ![v] = [hv EXCEPT !.pc = "raised"]]
                      /\ log' = [log EXCEPT ![v] =
                             with_exit(handle_finally_log(Did(@, "raise", r.tok), hv), "raise")]
                   \/ /\ st' = [st EXCEPT ![view_of(v)] = nv_feed_key(s, r.tok, TRUE)]
                      /\ h' = [h EXCEPT ![v] = h1]
                      /\ log' = [log EXCEPT ![v] = Did(@, "feed", r.tok)]
           ELSE
               /\ h' = [h EXCEPT ![v] = h1]
               /\ log' = [log EXCEPT ![v] = Did(@, "insert", r.tok)]
               /\ UNCHANGED st
    /\ UNCHANGED <<tokvars, mapleader, barevars, rangevars, collectvars, genvars, queryvars>>

\* lines 290-304: the input parser is not satisfied
handle_unsatisfied(v) ==
    /\ h[v].pc = "unsatisfied"
    /\ LET hv == h[v]
           s == st[view_of(v)]
       IN  IF s.action # "none" /\ s.motion # "none" THEN
               \/ \* motion.translate(view) gives nothing
                  /\ st' = [st EXCEPT ![view_of(v)] = reset_command_data(s, TRUE)]
                  /\ h' = [h EXCEPT ![v] = [hv EXCEPT !.pc = "done"]]
                  /\ log' = [log EXCEPT ![v] = Did(@, "ui_bell", None)]
               \/ /\ h' = [h EXCEPT ![v] = [hv EXCEPT !.pc = "done"]]
                  /\ log' = [log EXCEPT ![v] = Did(@, "run_motion", None)]
                  /\ UNCHANGED st
           ELSE
               /\ st' = [st EXCEPT ![view_of(v)] = _collect_input(s)]
               /\ h' = [h EXCEPT ![v] =
                      [hv EXCEPT !.pc = IF _collect_input_raises(s) THEN "raised" ELSE "done"]]
               /\ log' = [log EXCEPT ![v] = _collect_input_log(@, s)]
    /\ UNCHANGED <<tokvars, mapleader, barevars, rangevars, collectvars, genvars, queryvars>>

(***************************************************************************)
(* ProcessCmdTextHandler.  A text command is a name; h[v].keys holds       *)
(* text_cmd, and h[v].leading the list leading_motions.                    *)
(***************************************************************************)
\* the key sequence each text command stands for (keys.map_cmd2textcmd read
\* backwards)
KeyOfTextCmd ==
    ("MoveRightByChars" :> <<"l">>) @@ ("DeleteByChars" :> <<"d">>)
    @@ ("SearchForward" :> <<"/">>) @@ ("EnterInsertMode" :> <<"i">>)
    @@ ("Undo" :> <<"u">>) @@ ("Redo" :> T_redo) @@ ("Repeat" :> <<".">>)

TextCmds == DOMAIN KeyOfTextCmd

\* the text commands of ViRedo, ViUndo and ViRepeat in keys.map_cmd2textcmd
map_cmd2textcmd == ("ViRedo" :> {"Redo"}) @@ ("ViUndo" :> {"Undo"}) @@ ("ViRepeat" :> {"Repeat"})

\* str.lower() of a command name
TextLowerOf ==
    ("Undo" :> "undo") @@ ("Redo" :> "redo") @@ ("Repeat" :> "repeat")

text_lower(txt) == IF txt \in DOMAIN TextLowerOf THEN TextLowerOf[txt] ELSE txt

\* lines 23-26
_cmd_exclude ==
    {text_lower(txt) : txt \in UNION {map_cmd2textcmd[cmd] : cmd \in {"ViRedo", "ViUndo", "ViRepeat"}}}

\* window.run_command('nv_feed_text_cmd', {'text_cmd': text_cmd, 'do_eval': do_eval, ...})
nv_feed_text_cmd(s, text_cmd, do_eval) == nv_feed_key(s, KeyOfTextCmd[text_cmd], do_eval)

\* the finally clause of handle(): lines 117-119
text_finally(s, hv) ==
    [s EXCEPT !.interactive = TRUE,
              !.repeat = IF hv.keys \in _cmd_exclude THEN @
                         ELSE [kind |-> "native", text |-> <<hv.keys>>, mode |-> hv.initial_mode]]

text_finally_log(lg, hv) ==
    IF hv.keys \in _cmd_exclude THEN lg ELSE Did(lg, "set_repeat_data", <<hv.keys>>)

\* lines 38-80
text_start(v) ==
    /\ h[v].kind = "txt" /\ h[v].pc = "start"
    /\ LET hv == [h[v] EXCEPT !.initial_mode = st[view_of(v)].mode]
           s == [st[view_of(v)] EXCEPT !.interactive = FALSE]
       IN  IF hv.cont \/ s.action # "none" THEN
               /\ st' = [st EXCEPT ![view_of(v)] = s]
               /\ h' = [h EXCEPT ![v] = [hv EXCEPT !.pc = "primed"]]
               /\ UNCHANGED log
           ELSE
               \/ /\ st' = [st EXCEPT ![view_of(v)] = s]
                  /\ h' = [h EXCEPT ![v] = [hv EXCEPT !.pc = "raised"]]
                  /\ log' = [log EXCEPT ![v] = Did(@, "raise", <<hv.keys>>)]
               \/ LET s1 == nv_feed_text_cmd(s, hv.keys, FALSE)
                      h1 == [hv EXCEPT !.pc = "primed",
                                       !.key_reg = IF s1.capreg # s.capreg
                                                       THEN {<<0, hv.keys>>} ELSE {}]
                      lg1 == Did(log[v], "feed_no_eval", <<hv.keys>>)
                  IN  IF s1.action # "none" THEN
                          LET s2 == reset_command_data(s1, setReg(s1)) IN
                          /\ st' = [st EXCEPT ![view_of(v)] =
                                 [s2 EXCEPT !.mode = IF @ = "operator_pending"
                                                         THEN "normal" ELSE @]]
                          /\ h' = [h EXCEPT ![v] = h1]
                          /\ log' = [log EXCEPT ![v] = lg1]
                      ELSE IF is_runnable(s1) THEN
                          /\ st' = [st EXCEPT ![view_of(v)] =
                                 reset_command_data(evaluate_state(s1), TRUE)]
                          /\ h' = [h EXCEPT ![v] = [h1 EXCEPT !.leading = <<s1.seq>>]]
                          /\ log' = [log EXCEPT ![v] = Did(lg1, "leading_motion", s1.seq)]
                      ELSE
                          /\ st' = [st EXCEPT ![view_of(v)] = evaluate_state(s1)]
                          /\ h' = [h EXCEPT ![v] = h1]
                          /\ log' = [log EXCEPT ![v] = lg1]
    /\ UNCHANGED <<tokvars, mapleader, barevars, rangevars, collectvars, genvars, queryvars>>

\* lines 82-105
text_primed(v) ==
    /\ h[v].kind = "txt" /\ h[v].pc = "primed"
    /\ LET hv == h[v]
           s == st[view_of(v)]
       IN  IF must_collect_input(s) THEN
               IF refeeds_key(hv) THEN
                   \/ /\ h' = [h EXCEPT ![v] = [hv EXCEPT !.pc = "raised"]]
                      /\ log' = [log EXCEPT ![v] = Did(@, "raise", <<hv.keys>>)]
                      /\ UNCHANGED st
                   \/ /\ st' = [st EXCEPT ![view_of(v)] = nv_feed_text_cmd(s, hv.keys, TRUE)]
                      /\ h' = [h EXCEPT ![v] = [hv EXCEPT !.pc = "done"]]
                      /\ log' = [log EXCEPT ![v] = Did(@, "feed_eval", <<hv.keys>>)]
               ELSE
                   /\ st' = [st EXCEPT ![view_of(v)] = _collect_input(s)]
                   /\ h' = [h EXCEPT ![v] =
                          [hv EXCEPT !.pc = IF _collect_input_raises(s)
                                                THEN "raised" ELSE "done"]]
                   /\ log' = [log EXCEPT ![v] = _collect_input_log(@, s)]
           ELSE IF hv.leading # <<>> THEN
               \* one leading motion, one text command: lines 93-99
               /\ st' = [st EXCEPT ![view_of(v)] = [s EXCEPT !.interactive = TRUE]]
               /\ h' = [h EXCEPT ![v] = [hv EXCEPT !.pc = "done"]]
               /\ UNCHANGED log
           ELSE IF ~runs_keys(s) THEN
               /\ h' = [h EXCEPT ![v] = [hv EXCEPT !.pc = "unsatisfied"]]
               /\ UNCHANGED <<st, log>>
           ELSE
               /\ h' = [h EXCEPT ![v] = [hv EXCEPT !.pc = "exec"]]
               /\ log' = [log EXCEPT ![v] = with_enter(@)]
               /\ UNCHANGED st
    /\ UNCHANGED <<tokvars, mapleader, barevars, rangevars, collectvars, genvars, queryvars>>

\* lines 106-119
text_exec(v) ==
    /\ h[v].kind = "txt" /\ h[v].pc = "exec"
    /\ LET hv == h[v]
           s == st[view_of(v)]
           skip == <<0, hv.keys>> \in hv.key_reg
           s1 == IF skip THEN s ELSE nv_feed_text_cmd(s, hv.keys, TRUE)
           lg1 == IF skip THEN log[v] ELSE Did(log[v], "feed", <<hv.keys>>)
       IN  \/ /\ ~skip
              /\ st' = [st EXCEPT ![view_of(v)] = text_finally(s, hv)]
              /\ h' = [h EXCEPT ![v] = [hv EXCEPT !.pc = "raised"]]
              /\ log' = [log EXCEPT ![v] =
                     with_exit(text_finally_log(Did(@, "raise", <<hv.keys>>), hv), "raise")]
           \/ /\ st' = [st EXCEPT ![view_of(v)] = text_finally(s1, hv)]
              /\ h' = [h EXCEPT ![v] =
                     [hv EXCEPT !.pc = IF must_collect_input(s1)
                                           THEN "unsatisfied" ELSE "done"]]
              /\ log' = [log EXCEPT ![v] =
                     with_exit(text_finally_log(lg1, hv),
                               IF must_collect_input(s1) THEN "fall" ELSE "return")]
    /\ UNCHANGED <<tokvars, mapleader, barevars, rangevars, collectvars, genvars, queryvars>>

(***************************************************************************)
(* The handlers run: one handler for view A (Spec), or one for each of     *)
(* the views A and B, their steps interleaved (SpecIso).                   *)
(***************************************************************************)
KeyUnits ==
    {<<"l">>, <<"d">>, <<"/">>, <<"\"">>, <<"i">>, bracket(<<"C", "R">>),
     bracket(<<"E", "s", "c">>), <<"<", "x", ">">>, <<"\n">>}

\* the repeat, undo and redo keys, given alone
RepeatKeys == {<<".">>, <<"u">>, T_redo, <<"<", "c", "-", "r", ">">>}

KeyInputs == {join(us) : us \in SeqsUpTo(KeyUnits, MaxKeys)} \cup RepeatKeys

\* the pending state a view can be in when a handler is created for it
StartStates ==
    {Idle("normal"), Idle("insert"),
     [Idle("operator_pending") EXCEPT !.action = "d", !.seq = <<"d">>],
     [Idle("normal") EXCEPT !.motion = "l", !.seq = <<"l">>],
     [Idle("normal") EXCEPT !.motion = "/", !.minp = TRUE, !.seq = <<"/">>]}

Init ==
    /\ TokIdle /\ BareIdle /\ RangeIdle /\ CollectIdle
    /\ GenIdle /\ QueryIdle
    /\ st \in [Views -> StartStates]
    /\ st["B"] = Idle("normal")
    /\ \E cont \in BOOLEAN :
          \/ \E keys \in KeyInputs, L \in BOOLEAN :
                h = [v \in Views |-> IF v = "A" THEN NewHandler("seq", keys, cont, L, st[v])
                                     ELSE NoHandler]
          \/ \E text_cmd \in TextCmds :
                h = [v \in Views |-> IF v = "A"
                                         THEN NewHandler("txt", text_cmd, cont, FALSE, st[v])
                                     ELSE NoHandler]
    /\ log = [v \in Views |-> NoLog]

IsoKeyUnits == {<<"l">>, <<"d">>, <<"/">>, <<"\"">>}

IsoStartStates ==
    {Idle("normal"), [Idle("operator_pending") EXCEPT !.action = "d", !.seq = <<"d">>]}

IsoHandlers(entry) ==
    {NewHandler("seq", join(us), cont, FALSE, entry) :
         us \in SeqsUpTo(IsoKeyUnits, MaxIsoKeys), cont \in BOOLEAN}
    \cup {NewHandler("txt", text_cmd, FALSE, FALSE, entry) :
         text_cmd \in {"MoveRightByChars", "DeleteByChars", "SearchForward"}}

InitIso ==
    /\ TokIdle /\ BareIdle /\ RangeIdle /\ CollectIdle
    /\ GenIdle /\ QueryIdle
    /\ st \in [Views -> IsoStartStates]
    /\ h \in [Views -> UNION {IsoHandlers(e) : e \in IsoStartStates}]
    /\ \A v \in Views : h[v].entry = st[v]
    /\ log = [v \in Views |-> NoLog]

Next ==
    \E v \in Views :
        \/ handle_start(v)
        \/ handle_prime(v)
        \/ handle_primed(v)
        \/ handle_exec(v)
        \/ handle_unsatisfied(v)
        \/ text_start(v)
        \/ text_primed(v)
        \/ text_exec(v)

Spec == Init /\ [][Next]_vars

SpecIso == InitIso /\ [][Next]_vars

(***************************************************************************)
(* _collect_input alone, on a view with any motion and action pending.     *)
(***************************************************************************)
InputParsers == {"None", "interactive", "not_interactive"}

\* the motions and the actions a view can hold, None among them
PendingMotions ==
    {NoCommand} \cup {Command(name, a, p) : name \in {"l", "/"}, a \in BOOLEAN, p \in InputParsers}

PendingActions ==
    {NoCommand} \cup {Command(name, a, p) : name \in {"d", "r"}, a \in BOOLEAN, p \in InputParsers}

InitCollect ==
    /\ TokIdle /\ BareIdle /\ RangeIdle /\ HandlersIdle /\ GenIdle /\ QueryIdle
    /\ cmotion \in PendingMotions /\ caction \in PendingActions
    /\ ccommand = NoCommand /\ coutcome = "none"
    /\ cinteractive \in BOOLEAN
    /\ cphase = "called"

\* self._collect_input()
CollectInput ==
    /\ cphase = "called"
    /\ ccommand' = _collect_input_command(cmotion, caction)
    /\ coutcome' = _collect_input_outcome(ccommand')
    /\ cinteractive' = TRUE
    /\ cphase' = "done"
    /\ UNCHANGED <<cmotion, caction, tokvars, mapleader, hvars, barevars, rangevars,
                   genvars, queryvars>>

NextCollect == CollectInput

SpecCollect == InitCollect /\ [][NextCollect]_vars

(***************************************************************************)
(* NeoVintageousEvents.on_query_context.  The Python values True, False    *)
(* and None are written "True", "False" and "None"; an operand can also be *)
(* the character of a key binding.                                         *)
(***************************************************************************)
truthy(x) == x \notin {"False", "None"}

py_not(x) == IF truthy(x) THEN "False" ELSE "True"

\* x and y, x or y: the operand that decides is the value
py_and(x, y) == IF truthy(x) THEN y ELSE x

py_or(x, y) == IF truthy(x) THEN x ELSE y

_check_query_context_value(value, operator, operand, match_all) ==
    IF operator = "OP_EQUAL" THEN
        IF operand = "True" THEN value
        ELSE IF operand = "False" THEN py_not(value)
        ELSE "False"
    ELSE IF operator = "OP_NOT_EQUAL" THEN
        IF operand = "True" THEN py_not(value)
        ELSE IF operand = "False" THEN value
        ELSE "False"
    ELSE "False"

_is_command_mode(view, operator, operand, match_all) ==
    _check_query_context_value(py_and(view.command_mode, view.is_view),
                               operator, operand, match_all)

_is_insert_mode(view, operator, operand, match_all) ==
    _check_query_context_value(py_and(py_not(view.command_mode), view.is_view),
                               operator, operand, match_all)

\* tuple('efghinpstv')
MenuKeys == {"e", "f", "g", "h", "i", "n", "p", "s", "t", "v"}

\* _is_command_mode(view) is called with its defaults: OP_EQUAL, True, False
_is_alt_key_enabled(view, operator, operand, match_all) ==
    IF view.winaltkeys = "menu" THEN
        py_and(py_or(IF operand \notin MenuKeys THEN "True" ELSE "False",
                     py_not(view.menu_visible)),
               _is_command_mode(view, "OP_EQUAL", "True", "False"))
    ELSE IF view.winaltkeys = "yes" THEN "False"
    ELSE _is_command_mode(view, "OP_EQUAL", "True", "False")

QueryKeys == {"vi_command_mode_aware", "vi_insert_mode_aware", "nv.alt_key_enabled"}

_query_contexts(key, view, operator, operand, match_all) ==
    CASE key = "vi_command_mode_aware" -> _is_command_mode(view, operator, operand, match_all)
      [] key = "vi_insert_mode_aware" -> _is_insert_mode(view, operator, operand, match_all)
      [] key = "nv.alt_key_enabled" -> _is_alt_key_enabled(view, operator, operand, match_all)

on_query_context(view, key, operator, operand, match_all) ==
    IF key \in QueryKeys THEN _query_contexts(key, view, operator, operand, match_all)
    ELSE "None"

\* a view: its 'command_mode' setting (None where it is unset), what is_view
\* says of it, its 'winaltkeys' option and whether its window shows the menu
QueryViews ==
    [command_mode : {"True", "False", "None"}, is_view : {"True", "False"},
     winaltkeys : {"menu", "yes", "no"}, menu_visible : {"True", "False"}]

QueryCalls ==
    [key : QueryKeys \cup {"setting.is_widget"},
     operator : {"OP_EQUAL", "OP_NOT_EQUAL", "OP_REGEX_MATCH"},
     operand : {"True", "False", "e", "x"},
     match_all : {"True", "False"}]

InitQuery ==
    /\ TokIdle /\ BareIdle /\ RangeIdle /\ HandlersIdle /\ CollectIdle /\ GenIdle
    /\ qview \in QueryViews /\ qcall \in QueryCalls
    /\ qret = "unused"
    /\ qphase = "called"

\* Sublime Text asks for a context key of a key binding
QueryContext ==
    /\ qphase = "called"
    /\ qret' = on_query_context(qview, qcall.key, qcall.operator, qcall.operand,
                                qcall.match_all)
    /\ qphase' = "done"
    /\ UNCHANGED <<qview, qcall, tokvars, mapleader, hvars, barevars, rangevars,
                   collectvars, genvars>>

NextQuery == QueryContext

SpecQuery == InitQuery /\ [][NextQuery]_vars

(***************************************************************************)
(* The claims.                                                             *)
(***************************************************************************)
Has(E, op) == \E j \in 1..Len(E) : E[j].op = op

RECURSIVE Rep(_, _)
Rep(x, k) == IF k = 0 THEN <<>> ELSE x \o Rep(x, k - 1)

\* what the handler did, the feeds of the first loop (do_eval False) left out
Effects(E) == SelectSeq(E, LAMBDA e : e.op # "feed_no_eval")

\* the events the handler of view v added in this step
NewEvents(v) == SubSeq(log'[v].ev, Len(log[v].ev) + 1, Len(log'[v].ev))

Ended(v) == h[v].pc \in {"done", "raised"}

ActionTails == {<<"d", "l">>, <<"i">>}

C1_Case(v, k, tail) ==
    /\ h[v].kind = "seq" /\ h[v].pc = "done" /\ ~h[v].cont
    /\ h[v].entry = Idle("normal")
    /\ h[v].keys = Rep(<<"l">>, k) \o tail

C1_Expected(k, tail) ==
    [j \in 1..k |-> [op |-> "leading_motion", key |-> <<"l">>, held |-> FALSE]]
    \o <<[op |-> "acquire", key |-> None, held |-> FALSE]>>
    \o [j \in 1..Len(tail) |-> [op |-> "feed", key |-> <<tail[j]>>, held |-> TRUE]]
    \o <<[op |-> "set_repeat_data", key |-> Rep(<<"l">>, k) \o tail, held |-> TRUE],
         [op |-> "release", key |-> None, held |-> TRUE]>>

C2_Collects(v) ==
    /\ h[v].kind = "seq" /\ h[v].pc = "primed" /\ h'[v] # h[v]
    /\ must_collect_input(st[v])

C2_NothingExecuted(v) ==
    /\ h'[v].pc = "done"
    /\ log'[v].nacq = log[v].nacq /\ log'[v].glue = log[v].glue
    /\ \A j \in 1..Len(NewEvents(v)) :
           NewEvents(v)[j].op \in {"_collect_input", "run_interactive_command"}
    /\ Has(NewEvents(v), "run_interactive_command")
    /\ st'[v].repeat = st[v].repeat

\* a search with its terminator, as '/foo<CR>', given with nothing pending
C2_SatisfiedSearch(v) ==
    /\ h[v].kind = "seq" /\ h[v].entry = Idle("normal")
    /\ LET t == tokenize_keys(h[v].keys, mapleader) IN
       /\ t.ok /\ Len(t.toks) >= 2
       /\ t.toks[1] = <<"/">> /\ t.toks[Len(t.toks)] = T_cr
       /\ \A j \in 2..(Len(t.toks) - 1) : t.toks[j] \notin {T_cr, T_esc}

C2_NoCollection(v) ==
    C2_SatisfiedSearch(v) =>
        ~Has(log[v].ev, "_collect_input") /\ ~Has(log[v].ev, "run_interactive_command")

\* C2 as claimed: whenever the state needs more input after the first loop,
\* nothing is executed and the input is collected interactively; a search
\* given with its terminator starts no interactive collection.
C2_AsClaimed ==
    /\ [][\A v \in Views : C2_Collects(v) => C2_NothingExecuted(v)]_vars
    /\ [](\A v \in Views : C2_NoCollection(v))

\* C2, amended: the same, for a handler created with cont False.
C2_NoExecutionWhenCollecting ==
    /\ [][\A v \in Views : (C2_Collects(v) /\ ~h[v].cont) => C2_NothingExecuted(v)]_vars
    /\ [](\A v \in Views : C2_NoCollection(v))

C2_Witness ==
    \E v \in Views :
        /\ h[v].kind = "seq" /\ ~h[v].cont /\ h[v].pc = "done"
        /\ h[v].keys = <<"/", "l">>
        /\ Has(log[v].ev, "run_interactive_command")
        /\ log[v].nacq = 0

\* C3: in every run of either handler the undo group is acquired at most
\* once, and it is not held when handle() has returned or raised.
C3_GroupScoped ==
    \A v \in Views :
        /\ log[v].nacq <= 1
        /\ Ended(v) => log[v].glue # "held"

C3_Witness ==
    \E v \in Views :
        /\ h[v].pc = "raised" /\ log[v].nacq = 1 /\ log[v].glue = "released"
        /\ Has(log[v].ev, "feed")

FeedOps == {"feed_no_eval", "feed_eval", "feed", "leading_motion", "insert"}

\* C4: when tokenize_keys fails on the key string, no key of it is fed,
\* evaluated as a leading motion or inserted, whether the tokens are
\* pre-iterated or drawn from the generator.
C4_NoPartialExecution ==
    \A v \in Views :
        (h[v].kind = "seq" /\ ~tokenize_keys(h[v].keys, mapleader).ok) =>
            \A j \in 1..Len(log[v].ev) : log[v].ev[j].op \notin FeedOps

\* C5: for a key string that tokenizes to the repeat, undo or redo key
\* alone, set_repeat_data is not called and the repeat data stays as it was.
C5_RepeatDataKept ==
    \A v \in Views :
        (/\ h[v].kind = "seq"
         /\ tokenize_keys(h[v].keys, mapleader).ok
         /\ tokenize_keys(h[v].keys, mapleader).toks \in {<<k>> : k \in repeat_excluded}) =>
            /\ ~Has(log[v].ev, "set_repeat_data")
            /\ st[v].repeat = h[v].entry.repeat

\* C6: when _collect_input finds no command, or a command without input
\* parser, the bell rings, the pending command is reset and handle() returns.
C6_BellResetReturn ==
    \A v \in Views : \A j \in 1..Len(log[v].ev) :
        (/\ log[v].ev[j].op = "_collect_input"
         /\ \/ log[v].ev[j].key = <<"none">>
            \/ ~HasInputParser(log[v].ev[j].key[1])) =>
            /\ h[v].pc = "done"
            /\ Has(log[v].ev, "ui_bell")
            /\ ~Has(log[v].ev, "raise")
            /\ st[v].motion = "none" /\ st[v].action = "none"

\* a step of another view's handler leaves the pending state of view v alone
C7_Frame(v) == h'[v] = h[v] => st'[v] = st[v] /\ log'[v] = log[v]

\* two runs that started alike and took the same steps ended alike, whatever
\* ran around them
C7_SameOutcome ==
    \A v, w \in Views : (Ended(v) /\ h[v] = h[w] /\ log[v] = log[w]) => st[v] = st[w]

RECURSIVE ModsAt(_, _)
\* the modifier letters of the bracket group t, read from position pos
ModsAt(t, pos) ==
    IF pos + 1 <= Len(t) /\ t[pos + 1] = "-" /\ lower(t[pos]) \in ModifierLetters
        THEN <<t[pos]>> \o ModsAt(t, pos + 2)
    ELSE <<>>

LowerSet(ms) == {lower(ms[j]) : j \in 1..Len(ms)}

CanonPrefix(S) ==
    (IF "c" \in S THEN <<"C", "-">> ELSE <<>>)
    \o (IF "m" \in S THEN <<"M", "-">> ELSE <<>>)
    \o (IF "s" \in S THEN <<"S", "-">> ELSE <<>>)

\* the source is one bracket group: a non-empty set of the modifiers c, m, s,
\* in any order and case, and a base key
C8_Case(ms, key) ==
    /\ tphase # "new"
    /\ ms # <<>> /\ LowerSet(ms) \subseteq {"c", "m", "s"}
    /\ Cardinality(LowerSet(ms)) = Len(ms)
    /\ key \in GroupKeys
    /\ source = Group(ms, key)

\* C8: every ordering and letter case of a non-empty subset of the modifiers
\* c, m, s before a base key tokenizes to the one token whose modifiers are
\* upper case and in the order C-, M-, S-.
C8_ModifiersCanonical ==
    LET ms == ModsAt(source, 2)
        key == SubSeq(source, 2 + 2 * Len(ms), Len(source) - 1)
    IN  C8_Case(ms, key) =>
            /\ toks.ok
            /\ toks.toks = <<bracket(CanonPrefix(LowerSet(ms))
                                     \o (IF Len(key) = 1 THEN key ELSE str_lower(key)))>>

C8_Witness ==
    /\ C8_Case(<<"S", "m", "c">>, <<"x">>)
    /\ toks.toks = <<<<"<", "C", "-", "M", "-", "S", "-", "x", ">">>>>

CMSRank == ("C" :> 1) @@ ("M" :> 2) @@ ("S" :> 3)

\* C9: in every token tokenize_keys yields, the letters C, M and S among the
\* modifiers stand in that order.
C9_ModifiersOrdered ==
    toks.ok =>
        \A j \in 1..Len(toks.toks) :
            LET ms == ModsAt(toks.toks[j], 2) IN
            \A a, b \in 1..Len(ms) :
                (a < b /\ ms[a] \in DOMAIN CMSRank /\ ms[b] \in DOMAIN CMSRank) =>
                    CMSRank[ms[a]] < CMSRank[ms[b]]

\* C10 as claimed: the tokens of an accepted input, joined and tokenized
\* again, are the same tokens.
C10_Idempotent == tphase = "retokenized" => retoks = toks

\* the value bound to a variable is one token in its canonical spelling
CanonicalToken(value) ==
    tokenize_keys(value, value) = [ok |-> TRUE, toks |-> <<value>>]

\* C10, amended: the same, when the variables are bound to single tokens in
\* their canonical spelling.
C10_IdempotentCanonicalVars ==
    (tphase = "retokenized" /\ CanonicalToken(mapleader)) => retoks = toks

C10_Witness ==
    /\ tphase = "retokenized" /\ mapleader = bracket(K_cr)
    /\ source = <<"\n">> \o bracket(<<"L", "e", "a", "d", "e", "r">>) \o Group(<<"S", "c">>, <<"x">>)
    /\ retoks = toks /\ Len(toks.toks) = 3

\* the sequence has its count, if any, after its register prefix, if any
RegisterThenCount(seq) ==
    ~\E p \in 2..Len(seq) : seq[p] = "\"" /\ \A j \in 1..(p - 1) : seq[j] \in Digits

DigitFree(seq) == \A j \in 1..Len(seq) : seq[j] \notin Digits

IsGroup(ms, key) == tphase # "new" /\ key \in GroupKeys /\ source = Group(ms, key)

\* a is counted as m
AliasedModifier(c) == IF lower(c) = "a" THEN "m" ELSE lower(c)

Repeats(ms) ==
    \E i, j \in 1..Len(ms) : i < j /\ AliasedModifier(ms[i]) = AliasedModifier(ms[j])

\* C12: a bracket group with a repeated modifier, a and m counted as one
\* modifier, is rejected with an error and yields no token.
C12_RepeatedModifierRejected ==
    LET ms == ModsAt(source, 2)
        key == SubSeq(source, 2 + 2 * Len(ms), Len(source) - 1)
    IN  (IsGroup(ms, key) /\ Repeats(ms)) => (~toks.ok /\ toks.toks = <<>>)

C12_Witness ==
    /\ IsGroup(<<"A", "c", "m">>, <<"x">>)
    /\ ~toks.ok /\ toks.toks = <<>>

C14_TextRepeatDataKept ==
    \A v \in Views :
        (/\ h[v].kind = "txt"
         /\ h[v].keys \in UNION {map_cmd2textcmd[c] : c \in DOMAIN map_cmd2textcmd}) =>
            /\ ~Has(log[v].ev, "set_repeat_data")
            /\ st[v].repeat = h[v].entry.repeat

(***************************************************************************)
(* Line addresses of a range.                                              *)
(***************************************************************************)
LineDoneOf(kind) == rphase = "line_done" /\ rtok[1].kind = kind

EndsWithNewline(b) == b # <<>> /\ b[Len(b)] = "\n"

SameStart(x, y) ==
    /\ Len(x) = Len(y)
    /\ \A j \in 1..Len(x) : x[j].kind = y[j].kind /\ x[j].content = y[j].content

Buf_1_2_3 == <<"1", "\n", "2", "\n", "3", "\n">>

\* C15 as stated: '$' resolves to the line before the trailing terminator of
\* the buffer (line 2 for "1\n2\n3\n") and to 0 for an empty buffer.
C15_AsClaimed ==
    LineDoneOf("dollar") =>
        /\ buf = <<>> => rres = Line(0)
        /\ EndsWithNewline(buf) => rres = Line(row_at(buf, Len(buf) - 1))
        /\ buf = Buf_1_2_3 => rres = Line(2)

\* C15 amended: in a buffer that ends with a line terminator '$' resolves to
\* the empty row after that terminator, one past the last terminated line
\* (line 3 for "1\n2\n3\n"); in an empty buffer it resolves to 0.
C15_LastLineAfterTerminator ==
    LineDoneOf("dollar") =>
        /\ buf = <<>> => rres = Line(0)
        /\ EndsWithNewline(buf) => rres = Line(row_at(buf, Len(buf) - 1) + 1)
        /\ buf = Buf_1_2_3 => rres = Line(3)

C15_Witness == LineDoneOf("dollar") /\ buf = Buf_1_2_3 /\ rres = Line(3)

\* C16: TokenDollar resolves to the number of newline characters of the
\* buffer, whatever the current line is, as the table of test_dollar says.
C16_DollarCountsNewlines ==
    LineDoneOf("dollar") =>
        /\ rres = Line(Cardinality({i \in 1..Len(buf) : buf[i] = "\n"}))
        /\ \A t \in test_dollar : buf = t.buf => rres = Line(t.line)

C16_Witness ==
    LineDoneOf("dollar") /\ buf = <<"1", "\n", "2">> /\ cur = 3 /\ rres = Line(1)

\* C17: a digits address n resolves to n - 1, and to -1 when n - 1 would be
\* below -1 (n <= 0), as the table of test_digits says.
C17_DigitsLine ==
    LineDoneOf("digits") =>
        /\ rres.kind = "line" /\ rres.line >= -1
        /\ int(rtok[1].content) >= 1 => rres.line = int(rtok[1].content) - 1
        /\ int(rtok[1].content) < 1 => rres.line = -1
        /\ \A t \in test_digits : rtok[1].content = t.content => rres.line = t.line

C17_Witness ==
    LineDoneOf("digits") /\ rtok[1].content = <<"-", "2">> /\ rres = Line(-1)

\* the start of a range with the deltas of each offset added up
SummedOffsets(start) ==
    [j \in 1..Len(start) |->
        IF start[j].kind = "offset" THEN TokenOffset(<<sum(start[j].content)>>)
        ELSE start[j]]

\* C18: an offset resolves to the current line plus the sum of its deltas,
\* not clamped to the buffer; in RangeNode.resolve an offset of several
\* deltas gives the region of the one offset of their sum, with and without
\* a primary address before it.
C18_OffsetsAccumulate ==
    /\ LineDoneOf("offset") =>
        /\ rres = Line(cur + sum(rtok[1].content))
        /\ \A t \in test_offset :
               (rtok[1].content = t.deltas /\ cur = t.cur) => rres = Line(t.line)
    /\ (rphase = "range_done" /\ rtok # <<>> /\ rtok[Len(rtok)].kind = "offset") =>
        /\ rres = resolve_node(buf, sel, SummedOffsets(rtok), rend, rsep)
        /\ \A i \in 1..Len(test_resolve) :
               (buf = test_resolve[i].buf /\ sel = test_resolve[i].sel
                    /\ SameStart(rtok, test_resolve[i].start))
                   => (rres.kind = "region" /\ rres = test_resolve[i].res)

C18_Witness ==
    /\ rphase = "range_done"
    /\ SameStart(rtok, <<TokenDigits(<<"2">>), TokenOffset(<<1, 1>>)>>)
    /\ buf = <<"\n", "\n", "\n">>
    /\ rres = Region(3, 3)

AllSelected == \A j \in 1..Len(sel) : sel[j].a < sel[j].b

\* C19: with non-empty selections the mark '<' resolves to the least line a
\* selection starts on and '>' to the greatest line a selection's last
\* selected character is on; any other mark name raises NotImplementedError.
C19_VisualMarks ==
    LineDoneOf("mark") =>
        /\ rtok[1].content \notin {<<"<">>, <<">">>} => rres = Raise("NotImplementedError")
        /\ (AllSelected /\ rtok[1].content = <<"<">>) =>
               /\ rres.kind = "line"
               /\ \E j \in 1..Len(sel) : rres.line = row_at(buf, sel[j].a)
               /\ \A j \in 1..Len(sel) : rres.line <= row_at(buf, sel[j].a)
        /\ (AllSelected /\ rtok[1].content = <<">">>) =>
               /\ rres.kind = "line"
               /\ \E j \in 1..Len(sel) : rres.line = row_at(buf, sel[j].b - 1)
               /\ \A j \in 1..Len(sel) : rres.line >= row_at(buf, sel[j].b - 1)
        /\ \A t \in test_mark :
               (buf = test_mark_buf /\ sel = <<t.sel>> /\ rtok[1].content = t.name)
                   => rres = Line(t.line)

C19_Witness ==
    /\ LineDoneOf("mark") /\ rtok[1].content = <<">">>
    /\ buf = <<"a", "\n", "b">>
    /\ sel = <<[a |-> 0, b |-> 2], [a |-> 2, b |-> 3]>>
    /\ rres = Line(1)

\* the result of a search whose candidate matches start at the points M
NearestAfter(M) == IF M = {} THEN Raise("pattern not found") ELSE Line(row_at(buf, SetMin(M)))

NearestBefore(M) == IF M = {} THEN Raise("pattern not found") ELSE Line(row_at(buf, SetMax(M)))

\* C20 as stated: a forward search resolves to the line of the nearest match
\* strictly after the position of the current line, a backward search to
\* that of the nearest match strictly before it; neither wraps, and without
\* such a match the search fails with 'pattern not found'.
C20_AsClaimed ==
    /\ LineDoneOf("search_forward") =>
        rres = NearestAfter({p \in Matches(buf, rtok[1].content) : p > text_point(buf, cur)})
    /\ LineDoneOf("search_backward") =>
        rres = NearestBefore({p \in Matches(buf, rtok[1].content) : p < text_point(buf, cur)})

\* C20 amended: a forward search resolves to the line of the nearest match
\* at or after the start of the current line, so a match on the current
\* line is found; a backward search resolves to the line of the nearest
\* match before the start of the current line; neither wraps, and without
\* such a match the search fails with 'pattern not found'.
C20_SearchFromLineStart ==
    /\ LineDoneOf("search_forward") =>
        /\ rres = NearestAfter({p \in Matches(buf, rtok[1].content) : p >= text_point(buf, cur)})
        /\ \A t \in test_search_forward :
               (buf = test_search_buf /\ rtok[1].content = t.pattern /\ cur = t.cur)
                   => rres = t.res
    /\ LineDoneOf("search_backward") =>
        /\ rres = NearestBefore({p \in Matches(buf, rtok[1].content) : p < text_point(buf, cur)})
        /\ \A t \in test_search_backward :
               (buf = test_search_buf /\ rtok[1].content = t.pattern /\ cur = t.cur)
                   => rres = t.res

C20_Witness ==
    /\ LineDoneOf("search_forward") /\ buf = test_search_buf
    /\ rtok[1].content = <<"c", "d">> /\ cur = 1
    /\ rres = Line(1)

(***************************************************************************)
(* Regions of a range.                                                     *)
(***************************************************************************)
RangeDone == rphase = "range_done"

NoPercent == ~HasPercent(rtok) /\ ~HasPercent(rend)

IsLineStart(p) == p = 0 \/ (p \in 1..Len(buf) /\ buf[p] = "\n")

\* the region is exactly the line the point pt is on, its newline included
IsFullLineOf(R, pt) ==
    /\ IsLineStart(R.a) /\ R.a <= pt
    /\ \A i \in (R.a + 1)..pt : buf[i] # "\n"
    /\ \/ R.b = Len(buf) /\ \A i \in (pt + 1)..Len(buf) : buf[i] # "\n"
       \/ R.b \in (pt + 1)..Len(buf) /\ buf[R.b] = "\n"
            /\ \A i \in (pt + 1)..(R.b - 1) : buf[i] # "\n"

\* the line the start address of the range resolves to
StartLine == _resolve_line_reference(buf, sel, start_or_dot(rtok))

\* the line the end address of the range resolves to
EndLine ==
    _resolve_line_reference_from(buf, sel, start_or_dot(rend), 1,
        IF rsep = ";" THEN StartLine.line ELSE row_at(buf, sel[1].b))

\* C21: RangeNode.resolve returns full-line regions.  An empty range gives
\* the full line of the primary cursor, a start-only range the full line of
\* its start address, and a range with a separator the region from the
\* start of the start line to the start of the line after the end line.
C21_FullLineRegions ==
    (RangeDone /\ NoPercent /\ rres.kind = "region" /\ rres.a # -1) =>
        /\ (rtok = <<>> /\ rsep = "") => IsFullLineOf(rres, sel[1].b)
        /\ rsep = "" =>
               /\ IsFullLineOf(rres, text_point(buf, StartLine.line))
               /\ row_at(buf, rres.a) = row_at(buf, text_point(buf, StartLine.line))
        /\ rsep # "" =>
               /\ rres.a = text_point(buf, StartLine.line)
               /\ rres.b = text_point(buf, EndLine.line + 1)
               /\ (0 <= StartLine.line /\ StartLine.line <= EndLine.line
                       /\ EndLine.line <= row_at(buf, Len(buf)))
                      => /\ IsLineStart(rres.a) /\ rres.a <= rres.b
                         /\ rres.b = Len(buf) \/ IsLineStart(rres.b)
               /\ \A i \in 1..Len(test_resolve_comma) :
                      (buf = test_resolve_comma[i].buf /\ sel = test_resolve_comma[i].sel
                           /\ SameStart(rtok, test_resolve_comma[i].start)
                           /\ SameStart(rend, test_resolve_comma[i].end) /\ rsep = ",")
                          => rres = test_resolve_comma[i].res

C21_Witness ==
    /\ RangeDone /\ rsep = ","
    /\ buf = <<"a", "\n", "b", "c", "d", "\n", "e", "f", "\n", "g", "\n", "h", "i", "\n">>
    /\ SameStart(rtok, <<TokenDot>>) /\ SameStart(rend, <<TokenDigits(<<"4">>)>>)
    /\ rres = Region(2, 11)

\* the regions of the lines of the buffer
LineRegions == {full_line(buf, p) : p \in 0..Len(buf)}

\* C22: a start-only range whose one token is the digit literal '0'
\* resolves to the marker region (-1, -1), which is the region of no line
\* of the buffer, whatever the buffer and the selections are.
C22_LineZeroMarker ==
    (RangeDone /\ rsep = "" /\ SameStart(rtok, <<TokenDigits(<<"0">>)>>)) =>
        /\ rres = Region(-1, -1)
        /\ \A l \in LineRegions : <<rres.a, rres.b>> # <<l.a, l.b>>

C22_Witness ==
    /\ RangeDone /\ rsep = "" /\ SameStart(rtok, <<TokenDigits(<<"0">>)>>)
    /\ buf = <<"a", "\n", "b">> /\ sel = <<[a |-> 2, b |-> 3]>>
    /\ rres = Region(-1, -1)

\* C23: a range that has the token '%' anywhere, in its start or its end,
\* resolves to the region (0, size of the buffer), whatever the buffer and
\* the selections are.
C23_PercentIsWholeBuffer ==
    (RangeDone /\ (HasPercent(rtok) \/ HasPercent(rend))) => rres = Region(0, Len(buf))

C23_Witness ==
    /\ RangeDone /\ rsep = ";" /\ SameStart(rtok, <<TokenDigits(<<"2">>)>>)
    /\ SameStart(rend, <<TokenDollar, TokenPercent>>)
    /\ buf = <<"a", "\n", "b">> /\ sel = <<[a |-> 2, b |-> 2]>>
    /\ rres = Region(0, 3)

(***************************************************************************)
(* The execution pass of ProcessNotationHandler.handle().                  *)
(***************************************************************************)
\* the calls that execute a command for real
RealOps == {"feed_eval", "feed", "insert", "run_motion"}

IsSeq(v) == h[v].kind = "seq"

\* C24 as stated: every real execution of handle() other than the leading
\* motions, the continuation re-feed with do_eval=True and the run_motion of
\* the fall-through included, happens while the undo group is held.
C24_AsClaimed ==
    \A v \in Views : IsSeq(v) =>
        \A j \in 1..Len(log[v].ev) : log[v].ev[j].op \in RealOps => log[v].ev[j].held

\* the events before the j-th one
Before(v, j) == SubSeq(log[v].ev, 1, j - 1)

\* C24 amended: the keys dispatched and the characters inserted by the
\* second loop are executed while the undo group is held.  The continuation
\* re-feed with do_eval=True is made before the group would be acquired and
\* is the last thing handle() does, so no group is acquired in that run;
\* the run_motion of the fall-through is made after the group was released.
C24_SecondLoopInsideGroup ==
    \A v \in Views : IsSeq(v) =>
        \A j \in 1..Len(log[v].ev) :
            LET e == log[v].ev[j] IN
            /\ e.op \in {"feed", "insert"} => e.held
            /\ e.op = "feed_eval" =>
                   /\ ~e.held /\ log[v].nacq = 0 /\ j = Len(log[v].ev)
            /\ e.op = "run_motion" =>
                   /\ ~e.held
                   /\ Has(Before(v, j), "acquire") => Has(Before(v, j), "release")

C24_Witness ==
    \E v \in Views :
        /\ IsSeq(v) /\ h[v].pc = "done"
        /\ Has(log[v].ev, "feed") /\ Has(log[v].ev, "release")
        /\ log[v].ev[Len(log[v].ev)].op = "run_motion"

\* the step leaves the with block of handle(): the second loop ends or an
\* exception is raised inside the try
LeavesWith(v) ==
    /\ IsSeq(v) /\ h[v].pc \in {"primed", "exec"}
    /\ Has(NewEvents(v), "release")

Recorded(v) == Has(NewEvents(v), "set_repeat_data")

\* C25 as stated: repeat data is recorded only when the state needs no more
\* input after the keys were executed; not when the execution pass ends with
\* must_collect_input true, and not when an exception aborts it.
C25_AsClaimed ==
    [][\A v \in Views :
          (LeavesWith(v) /\ (h'[v].pc = "raised" \/ must_collect_input(st'[v])))
              => ~Recorded(v)]_vars

\* C25 amended: repeat data is recorded whenever the with block of handle()
\* is left, whether the keys were all executed and no input is needed, the
\* pass ends with must_collect_input true, or an exception aborts it, unless
\* leading_motions + keys is one of '.', 'u', '<C-r>'; a step that does not
\* leave the with block records nothing.
C25_RecordedWheneverGroupLeft ==
    [][\A v \in Views : IsSeq(v) =>
          /\ LeavesWith(v) =>
                 (Recorded(v) <=> (h'[v].leading \o h'[v].lkeys) \notin repeat_excluded)
          /\ Recorded(v) =>
                 /\ LeavesWith(v)
                 /\ st'[v].repeat = [kind |-> "vi", text |-> h'[v].leading \o h'[v].lkeys,
                                     mode |-> h'[v].initial_mode]]_vars

C25_Witness ==
    \E v \in Views :
        /\ IsSeq(v) /\ h[v].pc = "unsatisfied" /\ must_collect_input(st[v])
        /\ Has(log[v].ev, "set_repeat_data")
        /\ st[v].repeat.text = <<"d", "/">>

\* the handler was created as a continuation for a view with a primed action
ContinuesAction(v) == h[v].cont /\ h[v].entry.action # "none"

\* C26: a continuation (cont=True) that finds an action primed when handle()
\* starts consumes no key in the priming loop: no key is fed with
\* do_eval=False, no leading motion is run, and action, motion, register and
\* mode are those handle() was entered with.
C26_ContinuationConsumesNoKey ==
    \A v \in Views : (h[v].kind \in {"seq", "txt"} /\ ContinuesAction(v)) =>
        /\ ~Has(log[v].ev, "feed_no_eval")
        /\ ~Has(log[v].ev, "leading_motion")
        /\ h[v].leading = <<>> /\ h[v].key_reg = {}
        /\ h[v].pc \in {"start", "prime", "primed"} =>
               /\ st[v].action = h[v].entry.action
               /\ st[v].motion = h[v].entry.motion
               /\ st[v].register = h[v].entry.register
               /\ st[v].mode = h[v].entry.mode
               /\ st[v].seq = h[v].entry.seq

C26_Witness ==
    \E v \in Views :
        /\ IsSeq(v) /\ ContinuesAction(v) /\ h[v].pc = "primed"
        /\ h[v].keys = <<"l", "l">> /\ h[v].key_cont = <<"l">>
        /\ log[v].ev = <<>>

\* the step is a pass of the priming loop in which the key primes an action
PrimesAction(v) ==
    /\ h[v].kind \in {"seq", "txt"}
    /\ h[v].pc = IF IsSeq(v) THEN "prime" ELSE "start"
    /\ h'[v].pc = "primed"
    /\ Has(NewEvents(v), "feed_no_eval")
    /\ LET key == NewEvents(v)[1].key
       IN  nv_feed_key(st[v], IF IsSeq(v) THEN key ELSE KeyOfTextCmd[key[1]], FALSE).action # "none"

\* the register when the action got primed, before the reset
RegisterAtPriming(v) ==
    LET key == NewEvents(v)[1].key
    IN  nv_feed_key(st[v], IF IsSeq(v) THEN key ELSE KeyOfTextCmd[key[1]], FALSE).register

CommandDataReset(s) == s.action = "none" /\ s.motion = "none" /\ s.seq = <<>>

\* C27 as stated: when a key primes an action in the priming loop the
\* pending command data is reset and the loop stops; a register other than
\* '"' selected earlier is cleared by the reset, and OperatorPending becomes
\* Normal.
C27_AsClaimed ==
    [][\A v \in Views : PrimesAction(v) =>
          /\ CommandDataReset(st'[v])
          /\ st'[v].register = DefaultRegister
          /\ st'[v].mode # "operator_pending"]_vars

\* C27 amended: when a key primes an action in the priming loop the pending
\* motion, action and sequence are reset and the loop stops; the register is
\* left as it was, so a register other than '"' selected earlier in the
\* sequence is kept (setReg is False for it) and the default register stays
\* the default; if the mode was OperatorPending it becomes Normal.
C27_ResetKeepsRegister ==
    [][\A v \in Views : PrimesAction(v) =>
          /\ CommandDataReset(st'[v])
          /\ st'[v].register = RegisterAtPriming(v)
          /\ st'[v].mode # "operator_pending"
          /\ st[v].mode = "normal" => st'[v].mode = "normal"]_vars

C27_Witness ==
    \E v \in Views :
        /\ IsSeq(v) /\ h[v].pc = "primed" /\ h[v].keys = <<"\"", "d", "d">>
        /\ h[v].i = 3 /\ CommandDataReset(st[v])
        /\ st[v].register = "d" /\ st[v].mode = "normal"

\* the token the second loop is about to process
ExecToken(v) == _tokenize_one(h[v].lkeys, h[v].pos, mapleader)

\* the step is a pass of the second loop over a token that is not '<Esc>'
ExecPass(v) ==
    /\ IsSeq(v) /\ h[v].pc = "exec"
    /\ ExecToken(v).kind = "tok" /\ str_lower(ExecToken(v).tok) # T_esc

\* a key was recorded for the original position of the token
RecordedAt(v) == \E k \in h[v].key_reg : k[1] = h[v].i + h[v].reg_i_offset

EscPass(v) ==
    /\ IsSeq(v) /\ h[v].pc = "exec"
    /\ ExecToken(v).kind = "tok" /\ str_lower(ExecToken(v).tok) = T_esc

\* C29: in the second loop an '<Esc>' token, in any letter case and in any
\* mode, calls enter_normal_mode and nothing else: it is neither dispatched
\* through nv_feed_key nor inserted, and the next token finds the view in
\* Normal mode.
C29_EscEntersNormalMode ==
    /\ [][\A v \in Views : EscPass(v) =>
             /\ Len(NewEvents(v)) = 1 /\ NewEvents(v)[1].op = "enter_normal_mode"
             /\ st'[v].mode = "normal"
             /\ h'[v].pc = "exec" /\ h'[v].i = h[v].i + 1]_vars
    /\ [](\A v \in Views : IsSeq(v) =>
             \A j \in 1..Len(log[v].ev) :
                 log[v].ev[j].op \in {"feed", "insert"} => str_lower(log[v].ev[j].key) # T_esc)

C29_Witness ==
    \E v \in Views :
        /\ IsSeq(v) /\ h[v].keys = <<"i", "<", "E", "s", "c", ">", "l">>
        /\ \E j \in 1..(Len(log[v].ev) - 2) :
               /\ log[v].ev[j].op = "feed" /\ log[v].ev[j].key = <<"i">>
               /\ log[v].ev[j + 1].op = "enter_normal_mode"
               /\ log[v].ev[j + 1].key # h[v].keys
               /\ log[v].ev[j + 2].op = "feed" /\ log[v].ev[j + 2].key = <<"l">>

\* C30: the mode is read before every token of the second loop: a token
\* that is not '<Esc>' is inserted as characters, and not dispatched, exactly
\* when the view is in Insert or Replace mode at that moment.
C30_InsertedByCurrentMode ==
    [][\A v \in Views : ExecPass(v) =>
          IF st[v].mode \in {"insert", "replace"}
          THEN /\ Len(NewEvents(v)) = 1 /\ NewEvents(v)[1].op = "insert"
               /\ NewEvents(v)[1].key = ExecToken(v).tok
          ELSE ~Has(NewEvents(v), "insert")]_vars

C30_Witness ==
    \E v \in Views :
        /\ IsSeq(v) /\ h[v].initial_mode = "normal" /\ h[v].keys = <<"i", "l", "<", "E", "s", "c", ">">>
        /\ h[v].pc = "done"
        /\ \E j \in 1..(Len(log[v].ev) - 2) :
               /\ log[v].ev[j].op = "feed" /\ log[v].ev[j].key = <<"i">>
               /\ log[v].ev[j + 1].op = "insert" /\ log[v].ev[j + 1].key = <<"l">>
               /\ log[v].ev[j + 2].op = "enter_normal_mode"

(***************************************************************************)
(* Interactive input, exits of handle(), keys fed.                         *)
(***************************************************************************)
CollectDone == cphase = "done"

BothPending == cmotion # NoCommand /\ caction # NoCommand

\* C31: _collect_input picks, with a motion and an action pending, the
\* motion if it accepts input and the action otherwise, and with one of
\* them pending that one; so the motion wins when both accept input, and
\* a command that accepts no input is never picked while the other pending
\* command accepts input.
C31_CollectedCommand ==
    CollectDone =>
        /\ BothPending => ccommand = (IF cmotion.accept_input THEN cmotion ELSE caction)
        /\ (cmotion # NoCommand /\ caction = NoCommand) => ccommand = cmotion
        /\ (cmotion = NoCommand /\ caction # NoCommand) => ccommand = caction
        /\ (BothPending /\ cmotion.accept_input /\ caction.accept_input) => ccommand = cmotion
        /\ \A other \in {cmotion, caction} \ {ccommand} :
               ~(other # NoCommand /\ other.accept_input /\ ~ccommand.accept_input)

C31_Witness ==
    /\ CollectDone /\ BothPending
    /\ cmotion.accept_input /\ caction.accept_input
    /\ ccommand = cmotion /\ coutcome = "run_interactive_command"

\* C32: when handle() of either handler has returned or raised, the
\* interactive flag of its view is True again.
C32_InteractiveRestored ==
    \A v \in Views : Ended(v) => st[v].interactive

\* the events of nv_feed_key commands
KeyFeeds == {"feed_no_eval", "feed_eval", "feed"}

\* C33: every key ProcessNotationHandler.handle() gives to nv_feed_key is a
\* token of its key string; the key of the re-feed with do_eval True of a
\* continuation is such a token, never None.
C33_FedKeysAreTokens ==
    \A v \in Views : IsSeq(v) =>
        LET tokens == tokenize_keys(h[v].keys, mapleader).toks IN
        \A j \in 1..Len(log[v].ev) :
            log[v].ev[j].op \in KeyFeeds =>
                \E k \in 1..Len(tokens) : tokens[k] = log[v].ev[j].key

\* the number of events of E with the given op
Count(E, op) == Len(SelectSeq(E, LAMBDA e : e.op = op))

\* handle() has returned for a key string given with nothing pending, and
\* every token of it ran as a leading motion
AllLeadingMotions(v) ==
    /\ IsSeq(v) /\ h[v].pc = "done"
    /\ h[v].entry = Idle("normal")
    /\ LET t == tokenize_keys(h[v].keys, mapleader) IN
       /\ t.ok /\ Len(t.toks) >= 1
       /\ Count(log[v].ev, "feed_no_eval") = Len(t.toks)
       /\ Count(log[v].ev, "leading_motion") = Len(t.toks)

\* C34: when every token of the input ran as a leading motion, handle()
\* returns without the undo group acquired and without set_repeat_data
\* called, the repeat data as it was; whatever the length of the raw text.
C34_LeadingMotionsOnly ==
    \A v \in Views :
        AllLeadingMotions(v) =>
            /\ log[v].nacq = 0
            /\ ~Has(log[v].ev, "set_repeat_data")
            /\ st[v].repeat = h[v].entry.repeat

(***************************************************************************)
(* The tokenizer and to_bare_command_name, further.                        *)
(***************************************************************************)
\* C35: the modifiers of the token of an accepted bracket group are the
\* modifiers written in the group, a counted as m: none added, none dropped.
C35_ModifierSetPreserved ==
    LET ms == ModsAt(source, 2)
        key == SubSeq(source, 2 + 2 * Len(ms), Len(source) - 1)
    IN  (IsGroup(ms, key) /\ toks.ok) =>
            /\ Len(toks.toks) = 1
            /\ LowerSet(ModsAt(toks.toks[1], 2))
                   = {AliasedModifier(ms[j]) : j \in 1..Len(ms)}

\* the input opens a group that no '>' closes
Unterminated(src) ==
    \E i \in 1..Len(src) : src[i] = "<" /\ \A j \in (i + 1)..Len(src) : src[j] # ">"

GenOver == gphase \in {"ended", "raised"}

\* a token was yielded in this step
Yields == gphase = "iter" /\ gphase' = "iter" /\ gtokens' # gtokens

\* C36: drawing from tokenize_keys(source) comes to an end: every token
\* yielded moves the position to the right, no more tokens are yielded than
\* the source has characters, and the generator ends at the end of the
\* input or raises; on a group left open it raises, having yielded the
\* tokens before the group only.
C36_Terminates ==
    /\ <>GenOver
    /\ [][Yields => (gpos' > gpos /\ Len(gtokens') = Len(gtokens) + 1)]_vars
    /\ [](Len(gtokens) <= Len(gsource) /\ gpos <= Len(gsource) + 1)
    /\ [](gphase = "ended" => (gpos = Len(gsource) + 1 /\ ~Unterminated(gsource)))
    /\ [](GenOver => gtokens = tokenize_keys(gsource, mapleader).toks)

C36_Witness ==
    /\ gphase = "raised"
    /\ gsource = <<"x", "<", "x">>
    /\ gtokens = <<<<"x">>>>

\* C37: the bare name of a sequence is its command: the register prefix
\* and the counts are removed and every key of the command is kept, a digit
\* that is a motion or a character argument ('d0', 'f1') included.
C37_BareNameIsCommand ==
    (tphase \in {"both", "again"} /\ RegisterThenCount(source)) =>
        /\ bare.ok
        /\ bare.name = cmdseq

\* C38: to_bare_command_name applied to its own result gives that result
\* again, also for a count before the register ('2"ap') and for digits
\* alone.
C38_BareNameIdempotent ==
    tphase = "again" => bare2 = bare

\* the other of OP_EQUAL and OP_NOT_EQUAL
OtherOperator(operator) == IF operator = "OP_EQUAL" THEN "OP_NOT_EQUAL" ELSE "OP_EQUAL"

\* C39: on_query_context answers None for an unknown key only: for a known
\* key, OP_EQUAL or OP_NOT_EQUAL and a boolean operand the answer is True or
\* False, also on a view whose 'command_mode' setting is unset, and the
\* answer under OP_NOT_EQUAL is the negation of the answer under OP_EQUAL.
C39_QueryContextAnswers ==
    qphase = "done" =>
        /\ qcall.key \notin QueryKeys => qret = "None"
        /\ (/\ qcall.key \in QueryKeys
            /\ qcall.operator \in {"OP_EQUAL", "OP_NOT_EQUAL"}
            /\ qcall.operand \in {"True", "False"}) =>
               /\ qret \in {"True", "False"}
               /\ qret = py_not(on_query_context(qview, qcall.key,
                                                 OtherOperator(qcall.operator),
                                                 qcall.operand, qcall.match_all))

====
